---- MODULE Spec2Model ----
(***************************************************************************)
(* RelationService: the stale-while-revalidate read path                   *)
(* (IdentityQuery::identity), the background delete-and-refetch job, the   *)
(* target-dispatch engine fetch_all and the upstream adapters it drives,   *)
(* over a graph store of vertices and edges.                               *)
(***************************************************************************)
EXTENDS Integers, Sequences, FiniteSets, TLC

(***************************************************************************)
(* Bounds of the model.                                                    *)
(***************************************************************************)
\* number of identity() requests in one behaviour
MaxQueries == 2
\* number of explicit clock advances in one behaviour
MaxTicks == 2
\* length of an upstream domains list
MaxDomains == 2
\* number of seeds of a direct fetch_all invocation
MaxSeeds == 2
\* upserts applied to one row, and the timestamps they carry
MaxUpserts == 3
MaxAddedAt == 2
MaxUpdatedAt == 3
\* greatest depth passed to neighbors
MaxDepth == 2
\* holds of one identity, and the greatest limit and offset passed to nft
MaxHolds == 3
MaxLimit == 2
MaxOffset == 2
\* calls of Resolve::connect in flight together
MaxConnects == 3

(***************************************************************************)
(* Program constants.                                                      *)
(***************************************************************************)
\* sleep(Duration::from_secs(10))
GraceSecs == 10
\* Duration::hours(1), in seconds
OutdatedInSecs == 3600
\* fetch_all(vec![target], Some(3))
QueryDepth == 3
\* Duration::days(1), in seconds
ResolveOutdatedInSecs == 86400

None == "none"

(***************************************************************************)
(* Strings, platforms and targets.                                         *)
(***************************************************************************)
Wallet == "0xa"
WalletMixed == "0xA"
EnsNames == {"a.eth", "b.eth"}

\* str::to_lowercase on the strings of the model
ToLower(s) == IF s = WalletMixed THEN Wallet ELSE s

PlatformEthereum == "ethereum"
PlatformTwitter == "twitter"
PlatformENS == "ENS"

ChainEthereum == "chain_ethereum"
CategoryENS == "category_ens"
\* ContractCategory::ENS.default_contract_address()
EnsContractAddress == "0x57f1"

TargetIdentity(platform, identity) ==
    [kind |-> "Identity", platform |-> platform, identity |-> identity,
     chain |-> None, category |-> None, address |-> None]

TargetNFT(chain, category, address, token_id) ==
    [kind |-> "NFT", platform |-> None, identity |-> token_id,
     chain |-> chain, category |-> category, address |-> address]

\* Target::in_platform_supported
InPlatformSupported(target, platforms) ==
    target.kind = "Identity" /\ target.platform \in platforms

\* Target::in_nft_supported
InNftSupported(target, categories, chains) ==
    /\ target.kind = "NFT"
    /\ target.category \in categories
    /\ target.chain \in chains

(***************************************************************************)
(* The graph store: Identity and Contract vertices, Hold and Proof edges.  *)
(***************************************************************************)
Max(a, b) == IF a >= b THEN a ELSE b

\* the elements of a Vec
Range(seq) == {seq[i] : i \in 1..Len(seq)}

\* Identity::primary_key: format!("{},{}", platform, identity)
IdentityKey(platform, identity) == <<"Identities", platform, identity>>

ContractKey(chain, address) == <<"Contracts", chain, address>>

\* an upsert that treats updated_at as write-once
UpsertVertexKeepFirst(vs, id, attrs) ==
    IF id \in DOMAIN vs
    THEN [vs EXCEPT ![id] = [updated_at |-> vs[id].updated_at, added_at |-> attrs.added_at]]
    ELSE [k \in DOMAIN vs \cup {id} |-> IF k = id THEN attrs ELSE vs[k]]

\* Identity::to_attributes_map applied by the store to the row `id`:
\* updated_at carries OpCode::Max, added_at carries no operator (overwrite).
UpsertVertex(vs, id, attrs) ==
    IF id \in DOMAIN vs
    THEN [vs EXCEPT ![id] = [updated_at |-> Max(vs[id].updated_at, attrs.updated_at),
                             added_at |-> attrs.added_at]]
    ELSE [k \in DOMAIN vs \cup {id} |-> IF k = id THEN attrs ELSE vs[k]]

\* a store that adds an edge on every write
InsertEdge(es, key, t) ==
    es \cup {[kind |-> key.kind, from |-> key.from, to |-> key.to, source |-> key.source,
              disc |-> key.disc, updated_at |-> t]}

\* an edge is identified by (from, to, source, discriminator)
EdgeOf(kind, from, to, source, disc) ==
    [kind |-> kind, from |-> from, to |-> to, source |-> source, disc |-> disc]

\* a stored edge: its key and the updated_at it carries
Stamped(key, t) ==
    [kind |-> key.kind, from |-> key.from, to |-> key.to, source |-> key.source,
     disc |-> key.disc, updated_at |-> t]

EdgeKeyOf(e) == EdgeOf(e.kind, e.from, e.to, e.source, e.disc)

\* the store's edge upsert: one edge per key, the attributes of the last write
UpsertEdge(es, key, t) == {e \in es : EdgeKeyOf(e) # key} \cup {Stamped(key, t)}

\* Edge::connect: an edge found under the key is returned as it is, else linked
ConnectEdge(es, key, t) ==
    IF \E e \in es : EdgeKeyOf(e) = key THEN es ELSE es \cup {Stamped(key, t)}

(***************************************************************************)
(* The whole Identities row under upsert_graph.  An Option is <<>> for     *)
(* None and <<v>> for Some(v).                                             *)
(***************************************************************************)
\* the Identity values upserted under one primary key
IdentityValues ==
    [uuid : {<<>>, <<"u1">>, <<"u2">>},
     display_name : {<<>>, <<"n1">>, <<"n2">>},
     created_at : {<<>>, <<1>>},
     added_at : 1..MaxAddedAt,
     updated_at : 1..MaxUpdatedAt]

\* the operators to_attributes_map attaches: IgnoreIfExists on uuid and
\* created_at, Max on updated_at, none on display_name and added_at
OpOfOverwrite(attr) ==
    IF attr \in {"uuid", "created_at"} THEN "ignore_if_exists" ELSE "none"

OpOf(attr) ==
    CASE attr \in {"uuid", "created_at"} -> "ignore_if_exists"
      [] attr = "updated_at" -> "max"
      [] OTHER -> "none"

\* Identity::to_attributes_map: an optional attribute is in the map only when
\* it is Some; id, platform and identity are the row's key
ToAttributesMap(i) ==
    [attr \in {a \in {"uuid", "display_name", "created_at"} : i[a] # <<>>}
              \cup {"added_at", "updated_at"} |->
        [value |-> i[attr], op |-> OpOf(attr)]]

\* a store that accumulates under Max
ApplyOpAccumulate(op, exists, old, new) ==
    CASE op = "ignore_if_exists" -> IF exists THEN old ELSE new
      [] op = "max" -> IF exists THEN old + new ELSE new
      [] OTHER -> new

\* upsert_graph on one attribute of a row that exists or not
ApplyOp(op, exists, old, new) ==
    CASE op = "ignore_if_exists" -> IF exists THEN old ELSE new
      [] op = "max" -> IF exists /\ old > new THEN old ELSE new
      [] OTHER -> new

\* the attributes of a row no upsert has set
DefaultRow ==
    [uuid |-> <<>>, display_name |-> <<>>, created_at |-> <<>>, added_at |-> 0,
     updated_at |-> 0]

NoRows == [k \in {} |-> DefaultRow]

\* Identity::create_or_update: upsert_graph with the one vertex
CreateOrUpdate(rows, key, i) ==
    LET m == ToAttributesMap(i)
        exists == key \in DOMAIN rows
        old == IF exists THEN rows[key] ELSE DefaultRow
        new == [attr \in DOMAIN DefaultRow |->
                    IF attr \in DOMAIN m
                    THEN ApplyOp(m[attr].op, exists, old[attr], m[attr].value)
                    ELSE old[attr]]
    IN [k \in DOMAIN rows \cup {key} |-> IF k = key THEN new ELSE rows[k]]

\* Resolve::is_outdated: updated_at + 1 day < naive_now()
ResolveIsOutdated(updated_at, t) == updated_at + ResolveOutdatedInSecs < t

\* an is_outdated that counts the age equal to the TTL as outdated
IsOutdatedAtTtl(updated_at, t) == updated_at + OutdatedInSecs <= t

\* Identity::is_outdated: updated_at + 1h < naive_now()
IsOutdated(updated_at, t) == updated_at + OutdatedInSecs < t

\* Option<IdentityRecord>::None, and a failed lookup
NoneFound == [kind |-> "none", v_id |-> <<>>, updated_at |-> 0]
ErrFound == [kind |-> "error", v_id |-> <<>>, updated_at |-> 0]

\* Identity::find_by_platform_identity: filter platform="..",identity="..",
\* first result or None
FindByPlatformIdentity(vs, platform, identity) ==
    IF IdentityKey(platform, identity) \in DOMAIN vs
    THEN [kind |-> "some", v_id |-> IdentityKey(platform, identity),
          updated_at |-> vs[IdentityKey(platform, identity)].updated_at]
    ELSE NoneFound

\* a delete that takes the Contracts vertices along with v_id
DeleteVerticesConnected(vs, v_id) ==
    [k \in {x \in DOMAIN vs : x # v_id /\ Head(x) = "Identities"} |-> vs[k]]

\* delete_graph_inner_connection(v_id): the vertex and its incident edges
DeleteVertices(vs, v_id) == [k \in DOMAIN vs \ {v_id} |-> vs[k]]

DeleteEdges(es, v_id) == {e \in es : e.from # v_id /\ e.to # v_id}

(***************************************************************************)
(* Upstream responses of The Graph.                                        *)
(***************************************************************************)
\* EthQueryResponseDomains: name and resolvedAddress (None or an id)
Domains(names) == [name : names, resolvedAddress : {Wallet, None}]

\* EthQueryResponse.domains: lists of distinct domains, over the names the
\* upstream knows
DomainLists(names) ==
    {ds \in UNION {[1..n -> Domains(names)] : n \in 0..MaxDomains} :
        \A i, j \in 1..Len(ds) : i # j => ds[i].name # ds[j].name}

\* EthQueryResponse.transfers: None, Some(vec![]) or Some(vec![transfer])
TransferShapes == {"absent", "empty", "one"}

NowRecord(t) == [updated_at |-> t, added_at |-> t]

EmptyStore == [k \in {} |-> NowRecord(0)]

\* what one adapter fetch returned and left in the store, and the rows and
\* edge keys its writes addressed
Outcome(result, next, vs, es) ==
    [result |-> result, next |-> next, vertices |-> vs, edges |-> es,
     wrote |-> [vertices |-> {}, edges |-> {}]]

\* the outcome `o` of a fetch whose writes, on an empty store, leave `p`
Written(o, p) ==
    [o EXCEPT !.wrote = [vertices |-> DOMAIN p.vertices,
                         edges |-> {EdgeKeyOf(e) : e \in p.edges}]]

\* create_identity_to_contract_record(db, from, to, hold)
CreateIdentityToContractRecord(vs, es, from_id, ens, t) ==
    [vertices |-> UpsertVertex(UpsertVertex(vs, from_id, NowRecord(t)),
                               ContractKey(ChainEthereum, EnsContractAddress),
                               NowRecord(t)),
     edges |-> UpsertEdge(es, EdgeOf("Hold", from_id,
                                     ContractKey(ChainEthereum, EnsContractAddress),
                                     "the_graph", ens), t)]

\* the domains of the response the loop of fetch_ens_by_eth_wallet keeps
MatchingDomains(ds, identity) ==
    SelectSeq(ds, LAMBDA d : d.resolvedAddress # None /\ d.resolvedAddress = identity)

RECURSIVE PersistDomains(_, _, _, _, _, _)
\* the first k iterations of the loop of fetch_ens_by_eth_wallet
PersistDomains(vs, es, ms, k, identity, t) ==
    IF k = 0 THEN [vertices |-> vs, edges |-> es]
    ELSE LET prev == PersistDomains(vs, es, ms, k - 1, identity, t)
         IN CreateIdentityToContractRecord(prev.vertices, prev.edges,
                IdentityKey(PlatformEthereum, ToLower(identity)), ms[k].name, t)

EnsTarget(name) == TargetNFT(ChainEthereum, CategoryENS, EnsContractAddress, name)

\* fetch_ens_by_eth_wallet: every outcome the upstream and the store allow
FetchEnsByEthWallet(identity, vs, es, t, names) ==
    {Outcome("ok", {}, vs, es)}                       \* request failed, or no domains
    \cup {Outcome("panic", {}, vs, es)}               \* Ok(None): unwrap() on None
    \cup {Outcome("err", {}, vs, es)}                 \* new_db_connection failed
    \cup UNION {
        LET ms == MatchingDomains(ds, identity) IN
        {LET p == PersistDomains(vs, es, ms, k, identity, t) IN
            IF k < Len(ms)
            THEN Written(Outcome("err", {}, p.vertices, p.edges),     \* write k+1 failed
                         PersistDomains(EmptyStore, {}, ms, k, identity, 0))
            ELSE Written(Outcome("ok", {EnsTarget(ms[i].name) : i \in 1..Len(ms)},
                                 p.vertices, p.edges),
                         PersistDomains(EmptyStore, {}, ms, k, identity, 0))
         : k \in 0..Len(ms)}
        : ds \in DomainLists(names) \ {<<>>}}

\* fetch_eth_wallet_by_ens: every outcome the upstream and the store allow
FetchEthWalletByEns(ens_str, vs, es, t, names) ==
    {Outcome("ok", {}, vs, es)}                       \* request failed, or no domains
    \cup {Outcome("panic", {}, vs, es)}               \* Ok(None): unwrap() on None
    \cup UNION {
        IF ds[1].resolvedAddress = None \/ tr = "empty"
        THEN {Outcome("panic", {}, vs, es)}           \* unwrap() on None
        ELSE LET p == CreateIdentityToContractRecord(vs, es,
                         IdentityKey(PlatformEthereum, ds[1].resolvedAddress),
                         ens_str, t)
             IN {Outcome("err", {}, vs, es),          \* the store failed
                 Written(Outcome("ok",
                                 {TargetIdentity(PlatformEthereum, ds[1].resolvedAddress)},
                                 p.vertices, p.edges),
                         CreateIdentityToContractRecord(EmptyStore, {},
                             IdentityKey(PlatformEthereum, ds[1].resolvedAddress),
                             ens_str, 0))}
        : <<ds, tr>> \in (DomainLists(names) \ {<<>>}) \X TransferShapes}

\* TheGraph::can_fetch
TheGraphCanFetch(target) ==
    \/ InPlatformSupported(target, {PlatformEthereum})
    \/ InNftSupported(target, {CategoryENS}, {ChainEthereum})

\* TheGraph::fetch
TheGraphFetch(target, vs, es, t, names) ==
    IF ~TheGraphCanFetch(target) THEN {Outcome("ok", {}, vs, es)}
    ELSE IF target.kind = "Identity"
         THEN FetchEnsByEthWallet(target.identity, vs, es, t, names)
         ELSE FetchEthWalletByEns(target.identity, vs, es, t, names)

(***************************************************************************)
(* Upstream responses of RSS3.                                             *)
(***************************************************************************)
\* Item.metadata.collection_address of the one item a response may carry
CollectionAddress == "0xc0"

\* save_item: up to three writes, each failure swallowed by .ok()?
SaveItem(vs, es, to_addr, k, t) ==
    LET from_id == IdentityKey(PlatformEthereum, to_addr)
        to_id == IdentityKey(PlatformEthereum, CollectionAddress)
        v1 == IF k >= 1 THEN UpsertVertex(vs, from_id, NowRecord(t)) ELSE vs
        v2 == IF k >= 2 THEN UpsertVertex(v1, to_id, NowRecord(t)) ELSE v1
    IN [vertices |-> v2,
        edges |-> IF k >= 3 THEN ConnectEdge(es, EdgeOf("Proof", from_id, to_id, "rss3", None), t)
                  ELSE es]

\* the target the smoke test hands to Rss3::fetch
Rss3CanFetch(target) == InPlatformSupported(target, {PlatformEthereum})

\* Rss3::fetch: Err on a failed request, a non-2xx status or total == 0;
\* otherwise the items whose metadata.to equals the lowercased account are saved
Rss3Fetch(target, vs, es, t) ==
    IF ~Rss3CanFetch(target) THEN {Outcome("ok", {}, vs, es)}
    ELSE {Outcome("err", {}, vs, es)}
         \cup {LET p == SaveItem(vs, es, ToLower(target.identity), k, t)
               IN Written(Outcome("ok", {}, p.vertices, p.edges),
                          SaveItem(EmptyStore, {}, ToLower(target.identity), k, 0))
               : k \in 0..3}

(***************************************************************************)
(* The registry of adapters.                                               *)
(***************************************************************************)
Adapters == {"the_graph", "rss3"}

CanFetch(a, target) ==
    IF a = "the_graph" THEN TheGraphCanFetch(target) ELSE Rss3CanFetch(target)

AdapterFetch(a, target, vs, es, t, names) ==
    IF a = "the_graph" THEN TheGraphFetch(target, vs, es, t, names)
    ELSE Rss3Fetch(target, vs, es, t)

(***************************************************************************)
(* fetch_all: the breadth-first target-dispatch engine.                    *)
(***************************************************************************)
\* the canonical form of a target: platform plus lowercased identity, or
\* chain, category, address and token id
Canonical(target) ==
    IF target.kind = "Identity"
    THEN <<"Identity", target.platform, ToLower(target.identity), None, None>>
    ELSE <<"NFT", target.chain, target.category, target.address, target.identity>>

\* the fetch jobs of one layer: every frontier target for every capable adapter
Pairs(frontier) ==
    {<<target, a>> \in frontier \X Adapters : CanFetch(a, target)}

IdleFetch ==
    [status |-> "idle", max_depth |-> 0, layer |-> 0, pending |-> {},
     visited |-> {}, collected |-> {}, failed |-> FALSE]

\* the engine returns: Err iff some adapter fetch failed
Finish(f) ==
    [IdleFetch EXCEPT !.status = IF f.failed THEN "err" ELSE "ok"]

\* the layer `layer` starts on `frontier`: its targets go to the adapters
Dispatch(f, frontier, layer) ==
    LET g == [f EXCEPT !.layer = layer,
                       !.visited = @ \cup {Canonical(x) : x \in frontier},
                       !.collected = {},
                       !.pending = Pairs(frontier)]
    IN IF Pairs(frontier) = {} THEN Finish(g) ELSE g

\* fetch_all(seeds, max_depth) up to its first suspension point
NewFetchAll(seeds, max_depth) ==
    LET f == [IdleFetch EXCEPT !.status = "running", !.max_depth = max_depth]
    IN IF max_depth = 0 \/ seeds = {} THEN Finish(f) ELSE Dispatch(f, seeds, 0)

\* one target per canonical form among the targets S
Reps(S) ==
    {F \in SUBSET S :
        \A x \in S : Cardinality({y \in F : Canonical(y) = Canonical(x)}) = 1}

\* the follow-ups of the layer, visited or not
FreshUnfiltered(f) == f.collected

\* the follow-ups of the layer that were not visited before
Fresh(f) == {x \in f.collected : Canonical(x) \notin f.visited}

\* a loop that ends on an empty frontier only: out of depth, it dispatches
\* nothing and never returns
EndLayerUntilEmpty(f) ==
    IF Fresh(f) = {}
    THEN {Finish(f)}
    ELSE IF f.layer + 1 >= f.max_depth
         THEN {f}
         ELSE {Dispatch(f, F, f.layer + 1) : F \in Reps(Fresh(f))}

\* a loop that runs one layer more than max_depth
EndLayerOneMore(f) ==
    IF Fresh(f) = {} \/ f.layer + 1 > f.max_depth
    THEN {Finish(f)}
    ELSE {Dispatch(f, F, f.layer + 1) : F \in Reps(Fresh(f))}

\* the layer is over: stop on an empty frontier or an exhausted depth
EndLayer(f) ==
    IF Fresh(f) = {} \/ f.layer + 1 >= f.max_depth
    THEN {Finish(f)}
    ELSE {Dispatch(f, F, f.layer + 1) : F \in Reps(Fresh(f))}

\* an engine that returns at the first failed fetch, dropping its siblings
AfterFetchFailFast(f, pr, o) ==
    LET g == [f EXCEPT !.pending = @ \ {pr},
                       !.collected = IF o.result = "ok" THEN @ \cup o.next ELSE @,
                       !.failed = @ \/ o.result = "err"]
    IN IF o.result = "panic"
       THEN {[IdleFetch EXCEPT !.status = "panicked"]}
       ELSE IF o.result = "err" THEN {Finish(g)}
       ELSE IF g.pending # {} THEN {g} ELSE EndLayer(g)

\* one adapter fetch has returned `o`
AfterFetch(f, pr, o) ==
    LET g == [f EXCEPT !.pending = @ \ {pr},
                       !.collected = IF o.result = "ok" THEN @ \cup o.next ELSE @,
                       !.failed = @ \/ o.result = "err"]
    IN IF o.result = "panic"
       THEN {[IdleFetch EXCEPT !.status = "panicked"]}
       ELSE IF g.pending # {} THEN {g} ELSE EndLayer(g)

\* every way one pending fetch of a running fetch_all can complete
EngineSteps(f, vs, es, t, names) ==
    UNION {UNION {{[f |-> h, vertices |-> o.vertices, edges |-> o.edges,
                     pr |-> pr, result |-> o.result, next |-> o.next, wrote |-> o.wrote]
                     : h \in AfterFetch(f, pr, o)}
                  : o \in AdapterFetch(pr[2], pr[1], vs, es, t, names)}
           : pr \in f.pending}

(***************************************************************************)
(* State.                                                                  *)
(***************************************************************************)
VARIABLES
    now,        \* naive_now(), in seconds
    ticks,      \* clock advances taken so far
    vertices,   \* the store's vertices: primary key -> attributes
    edges,      \* the store's edges
    qpc,        \* position of each identity() request
    qin,        \* its (platform, identity) and target
    qresp,      \* its response
    qpath,      \* the branch it took
    qlog,       \* the lookups the store served to it, in order
    jpc,        \* position of the background task each request spawned
    jinfo,      \* v_id and target the task captured, and when it did what
    fa,         \* the fetch_all invocation of each caller
    ens_world,  \* the ENS names the upstream knows
    dlog,       \* what the direct fetch_all invocation dispatched and got back
    rq,         \* the ens() request: position, name, lookups, response, spawned task
    up,         \* one Identities row under a sequence of upserts
    rec,        \* an IdentityRecord (or Resolve) and the method called on it
    iq,         \* the identities() request: position, platforms, lookups, fetches, response
    asked,      \* the (platform string, identity) pairs clients send to identity()
    af,         \* one adapter fetch followed by the owner's lookup, as the adapters' tests run them
    nb,         \* the calls of neighbors(v, depth, reverse) on one graph
    nq,         \* the calls of nft(category, limit, offset) on one identity
    pj,         \* the projections reverse and ownedBy of one IdentityRecord
    rc,         \* the Resolve edge documents and the calls of Resolve::connect
    tg,         \* one call of TheGraph::fetch with its upstream response and its store
    ld          \* one batch of IdentityLoadFn and the proof read through it

vars == <<now, ticks, vertices, edges, qpc, qin, qresp, qpath, qlog, jpc, jinfo, fa, ens_world, dlog, rq, up, rec, iq, asked, af, nb, nq, pj, rc, tg, ld>>

Queries == 1..MaxQueries
\* caller 0 invokes fetch_all directly, callers 1.. are the requests,
\* and the caller after them is the ens() request
Direct == 0
Resolver == MaxQueries + 1
\* then the identities() request, and the task it spawns for each platform
Lister == MaxQueries + 2
ListerTask(platform) == IF platform = PlatformEthereum THEN MaxQueries + 3 ELSE MaxQueries + 4
Callers == {Direct, Resolver, Lister} \cup {ListerTask(p) : p \in {PlatformEthereum, PlatformTwitter}}
            \cup Queries

WalletKey == IdentityKey(PlatformEthereum, Wallet)

\* platform strings a client may send
PlatformStrings == {"ethereum", "Twitter", "bogus"}
QueryIdentities == {Wallet, WalletMixed}

\* platform.to_lowercase().parse()
ParsePlatform(s) ==
    LET l == IF s = "Twitter" THEN PlatformTwitter ELSE s
    IN IF l \in {PlatformEthereum, PlatformTwitter, PlatformENS} THEN l ELSE "error"

\* the target the older IdentityQuery::identity builds
QueryTargetIdentity(platform, identity) == TargetIdentity(platform, identity)

\* the target IdentityQuery::identity builds
QueryTarget(platform, identity) ==
    IF platform = PlatformENS
    THEN TargetNFT(ChainEthereum, CategoryENS, EnsContractAddress, identity)
    ELSE TargetIdentity(platform, identity)

\* a status that tests is_outdated() beside the id, not under it
DataStatusUnnested(v_id, updated_at, t) ==
    (IF v_id # <<>> THEN {"Cached"} ELSE {"Fetching"})
        \cup (IF IsOutdated(updated_at, t) THEN {"Outdated"} ELSE {})

\* a status that never reports Outdated
DataStatusCachedOnly(v_id, updated_at, t) ==
    IF v_id # <<>> THEN {"Cached"} ELSE {"Fetching"}

\* IdentityRecord::status
DataStatus(v_id, updated_at, t) ==
    IF v_id # <<>>
    THEN IF IsOutdated(updated_at, t) THEN {"Cached", "Outdated"} ELSE {"Cached"}
    ELSE {"Fetching"}

NoResp == [kind |-> "none", v_id |-> <<>>, updated_at |-> 0, status |-> {}]
ErrResp == [kind |-> "error", v_id |-> <<>>, updated_at |-> 0, status |-> {}]
NullResp == [kind |-> "null", v_id |-> <<>>, updated_at |-> 0, status |-> {}]
RecordResp(found, t) ==
    [kind |-> "record", v_id |-> found.v_id, updated_at |-> found.updated_at,
     status |-> DataStatus(found.v_id, found.updated_at, t)]

\* Ok(found) as the response: Some(record) or None
RespOf(found, t) == IF found.kind = "none" THEN NullResp ELSE RecordResp(found, t)

NoTarget == TargetIdentity(None, None)

NoInput == [platform |-> None, identity |-> None, target |-> NoTarget, found |-> NoneFound]

NoJob == [v_id |-> <<>>, target |-> NoTarget, spawned_at |-> 0, woke_at |-> -1,
          deleted_at |-> -1, delete_result |-> "none", end_rec |-> NoneFound,
          ended_at |-> -1, events |-> {}]

NoLog == [seeds |-> {}, max_depth |-> 0, dispatched |-> {}, ran |-> {}, any_fail |-> FALSE,
          redispatched |-> FALSE, ok_next |-> {}, ok_writes |-> {},
          rerun |-> FALSE, trace |-> {}, first |-> [vertices |-> EmptyStore, edges |-> {}]]

\* no upsert yet: the rows, the rows before the last upsert, the last value,
\* the number of upserts, the greatest updated_at upserted, and whether the
\* last upsert repeated the one before
NoUpserts ==
    [rows |-> NoRows, before |-> NoRows, last |-> <<>>, n |-> 0, max_in |-> 0,
     repeated |-> FALSE]

\* the identities() request before it starts: the platforms asked for, the
\* platforms the first lookup found, those left to fetch, those fetched,
\* those whose refetch was spawned, and the platforms of the response
NoListing ==
    [pc |-> "idle", platforms |-> <<>>, record |-> {}, path |-> "none", todo |-> <<>>,
     fetched |-> {}, spawned |-> {}, resp |-> "none", listed |-> {}]

\* no record yet and no method called
NoCall ==
    [v_id |-> <<>>, updated_at |-> 0, call |-> "none", status |-> {}, outdated |-> FALSE]

\* no adapter fetch yet: the adapter and the address, the fetch's result and
\* the rows and edge keys it wrote, and the owner looked up afterwards
NoAdapterCall ==
    [pc |-> "idle", adapter |-> None, address |-> None, result |-> "none",
     wrote |-> [vertices |-> {}, edges |-> {}], owner |-> NoneFound]

\* neighbors not called yet: what the stored query was sent and answered,
\* and what neighbors returned
NoNeighborsCall ==
    [state |-> "idle", flag |-> -1, answer |-> "none", vertices |-> {}, result |-> {}]

\* the arguments `reverse` of neighbors: None, Some(true), Some(false)
ReverseArgs == {None, "true", "false"}

\* no identity to ask the neighbors of
NoNeighbors ==
    [v_id |-> <<>>, depth |-> 0, graph |-> {}, call |-> [r \in ReverseArgs |-> NoNeighborsCall]]

\* no identity to ask the NFTs of: its platform, its holds in the store's
\* order, the category and limit of the calls, the page got per offset and
\* the requests sent to the store
NoNfts ==
    [platform |-> None, holds |-> <<>>, category |-> None, limit |-> None,
     page |-> [k \in {} |-> <<>>], requests |-> {}]

\* no record to project: its platform and stored reverse, the answer of
\* reverse (<<>> before the call), the answer of ownedBy, and the loads
\* ownedBy asked of the batch loader
NoProjection ==
    [platform |-> None, stored |-> None, reverse |-> <<>>,
     owned_by |-> "uncalled", loader |-> "none", loads |-> 0]

\* TheGraph::fetch before it is called: its target, what the upstream and the
\* store will do, and what it returned
NoTheGraphCall ==
    [pc |-> "idle", target |-> NoTarget, response |-> None, domains |-> <<>>, transfers |-> "absent", fail_at |-> 0,
     result |-> "none", next |-> {}, wrote |-> [vertices |-> {}, edges |-> {}],
     vertices |-> {}, edges |-> {}]

\* the loader before a batch: the ids asked, the store's answer, the map
\* load returned and the answers of ProofRecord::from and ProofRecord::to
NoLoad ==
    [pc |-> "idle", ids |-> {}, answer |-> None, returned |-> {}, requests |-> 0,
     failed |-> FALSE, map |-> [k \in {} |-> <<>>],
     from_id |-> <<>>, from |-> [kind |-> None, value |-> <<>>],
     to_id |-> <<>>, to |-> [kind |-> None, value |-> <<>>]]

\* one call of Resolve::connect before it starts: its position, its key,
\* what its query found and the edge it returned
NoConnect == [pc |-> "idle", key |-> <<>>, found |-> {}, returned |-> <<>>]

NoResolve == [kind |-> "none", name |-> None, updated_at |-> 0]
ErrResolve == [kind |-> "error", name |-> None, updated_at |-> 0]

NoRequest ==
    [pc |-> "idle", name |-> None, path |-> "none", found |-> NoResolve, lookups |-> 0,
     fetch_result |-> "none", resp |-> NoResolve, task |-> "none", at |-> 0]

Init ==
    /\ now = 0
    /\ ticks = 0
    /\ vertices \in {EmptyStore, [k \in {WalletKey} |-> NowRecord(0)]}
    /\ edges = {}
    /\ qpc = [q \in Queries |-> "idle"]
    /\ qin = [q \in Queries |-> NoInput]
    /\ qresp = [q \in Queries |-> NoResp]
    /\ qpath = [q \in Queries |-> "none"]
    /\ qlog = [q \in Queries |-> <<>>]
    /\ jpc = [q \in Queries |-> "none"]
    /\ jinfo = [q \in Queries |-> NoJob]
    /\ fa = [c \in Callers |-> IdleFetch]
    /\ ens_world = {"a.eth"}
    /\ dlog = NoLog
    /\ rq = NoRequest
    /\ up = NoUpserts
    /\ rec = NoCall
    /\ iq = NoListing
    /\ asked = PlatformStrings \X QueryIdentities
    /\ af = NoAdapterCall
    /\ nb = NoNeighbors
    /\ nq = NoNfts
    /\ pj = NoProjection
    /\ rc = [docs |-> {}, call |-> [c \in 1..MaxConnects |-> NoConnect]]
    /\ tg = NoTheGraphCall
    /\ ld = NoLoad

(***************************************************************************)
(* The clock.                                                              *)
(***************************************************************************)
TickSteps == {OutdatedInSecs + 1}

Tick ==
    /\ ticks < MaxTicks
    /\ \E d \in TickSteps : now' = now + d
    /\ ticks' = ticks + 1
    /\ UNCHANGED <<vertices, edges, qpc, qin, qresp, qpath, qlog, jpc, jinfo, fa, ens_world, dlog>>
    /\ UNCHANGED <<rq, up>>
    /\ UNCHANGED rec
    /\ UNCHANGED iq
    /\ UNCHANGED asked
    /\ UNCHANGED af
    /\ UNCHANGED nb
    /\ UNCHANGED nq
    /\ UNCHANGED pj
    /\ UNCHANGED rc
    /\ UNCHANGED tg
    /\ UNCHANGED ld

(***************************************************************************)
(* IdentityQuery::identity.                                                *)
(***************************************************************************)

\* requests are taken in the order of their index
MayStart(q) == qpc[q] = "idle" /\ \A p \in Queries : p < q => qpc[p] # "idle"

\* a lookup the store served: its answer, when, and what the caller's fetch_all
\* and the background deletes had done by then
LogEntry(res, q) ==
    [res |-> res, fa |-> fa[q].status, at |-> now,
     gone |-> {jinfo[j].v_id : j \in {i \in Queries : jinfo[i].delete_result = "ok"}},
     running |-> {j \in Queries : jpc[j] \in {"sleep", "delete", "fetch"}}]

\* a handler that refreshes whatever it found
SpawnsAlways(found, t) == TRUE

\* the branch of the match on the first lookup: found.is_outdated()
SpawnsRefetch(found, t) == IsOutdated(found.updated_at, t)

\* a None branch that answers with what the first lookup read
ColdResponseFirst(first, second) == first

\* what the None branch returns: the result of the second lookup
ColdResponse(first, second) == second

\* what the Some(found) branch returns: Ok(Some(found))
WarmResponse(found, stored) == found

\* a handler that joins the task it spawned
ReturnAfterTask(q) == jpc[q] \in {"done", "failed", "panicked"}

\* tokio::spawn drops the JoinHandle: the handler returns whatever the task does
ReturnReady(q) == TRUE

\* event!(Level::DEBUG, .., "Outdated. Delete and Refetching.")
OutdatedEvent == "Outdated. Delete and Refetching."

\* the events the task emits when `call` returned Err: the `?` returns the
\* error to the dropped JoinHandle, no event! stands on that path
FailureEvents(call) == {}

\* a task that is built and dropped without being spawned
TaskEntryUnpolled == "unpolled"

\* a task that starts at its delete
TaskEntryDelete == "delete"

\* the first statement of the spawned task: sleep(Duration::from_secs(10))
TaskEntry == "sleep"

\* platform.to_lowercase().parse()? fails
QueryParamError(q) ==
    /\ MayStart(q)
    /\ \E <<ps, id>> \in asked :
        /\ ParsePlatform(ps) = "error"
        /\ qin' = [qin EXCEPT ![q] = [platform |-> "error", identity |-> id,
                                      target |-> NoTarget, found |-> NoneFound]]
    /\ qpc' = [qpc EXCEPT ![q] = "done"]
    /\ qpath' = [qpath EXCEPT ![q] = "param_error"]
    /\ qresp' = [qresp EXCEPT ![q] = ErrResp]
    /\ UNCHANGED <<now, ticks, vertices, edges, qlog, jpc, jinfo, fa, ens_world, dlog>>
    /\ UNCHANGED <<rq, up>>
    /\ UNCHANGED rec
    /\ UNCHANGED iq
    /\ UNCHANGED asked
    /\ UNCHANGED af
    /\ UNCHANGED nb
    /\ UNCHANGED nq
    /\ UNCHANGED pj
    /\ UNCHANGED rc
    /\ UNCHANGED tg
    /\ UNCHANGED ld

\* the first lookup fails: find_expand_identity(..).await? returns the error
QueryStoreError(q) ==
    /\ MayStart(q)
    /\ \E <<ps, id>> \in asked :
        /\ ParsePlatform(ps) # "error"
        /\ qin' = [qin EXCEPT ![q] = [platform |-> ParsePlatform(ps), identity |-> id,
                                      target |-> QueryTarget(ParsePlatform(ps), id),
                                      found |-> NoneFound]]
    /\ qpc' = [qpc EXCEPT ![q] = "done"]
    /\ qpath' = [qpath EXCEPT ![q] = "store_error"]
    /\ qresp' = [qresp EXCEPT ![q] = ErrResp]
    /\ qlog' = [qlog EXCEPT ![q] = Append(@, LogEntry(ErrFound, q))]
    /\ UNCHANGED <<now, ticks, vertices, edges, jpc, jinfo, fa, ens_world, dlog>>
    /\ UNCHANGED <<rq, up>>
    /\ UNCHANGED rec
    /\ UNCHANGED iq
    /\ UNCHANGED asked
    /\ UNCHANGED af
    /\ UNCHANGED nb
    /\ UNCHANGED nq
    /\ UNCHANGED pj
    /\ UNCHANGED rc
    /\ UNCHANGED tg
    /\ UNCHANGED ld

\* the first lookup finds nothing: fetch_all(vec![target], Some(3)) starts
QueryCold(q) ==
    /\ MayStart(q)
    /\ \E <<ps, id>> \in asked :
        LET platform == ParsePlatform(ps) IN
        /\ platform # "error"
        /\ FindByPlatformIdentity(vertices, platform, id).kind = "none"
        /\ qin' = [qin EXCEPT ![q] = [platform |-> platform, identity |-> id,
                                      target |-> QueryTarget(platform, id),
                                      found |-> NoneFound]]
        /\ fa' = [fa EXCEPT ![q] = NewFetchAll({QueryTarget(platform, id)}, QueryDepth)]
    /\ qpc' = [qpc EXCEPT ![q] = "fetching"]
    /\ qpath' = [qpath EXCEPT ![q] = "cold"]
    /\ qlog' = [qlog EXCEPT ![q] = Append(@, LogEntry(NoneFound, q))]
    /\ UNCHANGED <<now, ticks, vertices, edges, qresp, jpc, jinfo, ens_world, dlog>>
    /\ UNCHANGED <<rq, up>>
    /\ UNCHANGED rec
    /\ UNCHANGED iq
    /\ UNCHANGED asked
    /\ UNCHANGED af
    /\ UNCHANGED nb
    /\ UNCHANGED nq
    /\ UNCHANGED pj
    /\ UNCHANGED rc
    /\ UNCHANGED tg
    /\ UNCHANGED ld

\* the first lookup finds an outdated record: the background task is spawned
QueryStale(q) ==
    /\ MayStart(q)
    /\ \E <<ps, id>> \in asked :
        LET platform == ParsePlatform(ps)
            found == FindByPlatformIdentity(vertices, platform, id) IN
        /\ platform # "error"
        /\ found.kind = "some"
        /\ SpawnsRefetch(found, now)
        /\ qin' = [qin EXCEPT ![q] = [platform |-> platform, identity |-> id,
                                      target |-> QueryTarget(platform, id),
                                      found |-> found]]
        /\ jinfo' = [jinfo EXCEPT ![q] = [NoJob EXCEPT !.v_id = found.v_id,
                                              !.target = QueryTarget(platform, id),
                                              !.spawned_at = now,
                                              !.events = {OutdatedEvent}]]
        /\ qlog' = [qlog EXCEPT ![q] = Append(@, LogEntry(found, q))]
    /\ jpc' = [jpc EXCEPT ![q] = TaskEntry]
    /\ qpc' = [qpc EXCEPT ![q] = "returning"]
    /\ qpath' = [qpath EXCEPT ![q] = "stale"]
    /\ UNCHANGED <<now, ticks, vertices, edges, qresp, fa, ens_world, dlog>>
    /\ UNCHANGED <<rq, up>>
    /\ UNCHANGED rec
    /\ UNCHANGED iq
    /\ UNCHANGED asked
    /\ UNCHANGED af
    /\ UNCHANGED nb
    /\ UNCHANGED nq
    /\ UNCHANGED pj
    /\ UNCHANGED rc
    /\ UNCHANGED tg
    /\ UNCHANGED ld

\* a handler that joins its task and returns the task's error
WithTaskResultJoined(resp, task) == IF task = "failed" THEN ErrResp ELSE resp

\* the task's Result: tokio::spawn's JoinHandle is dropped, nobody reads it
WithTaskResult(resp, task) == resp

\* the handler returns Ok(Some(found)) after the spawn
QueryReturn(q) ==
    /\ qpc[q] = "returning"
    /\ ReturnReady(q)
    /\ qresp' = [qresp EXCEPT ![q] =
            WithTaskResult(
                RespOf(WarmResponse(qin[q].found,
                                    FindByPlatformIdentity(vertices, qin[q].platform,
                                                           qin[q].identity)), now),
                jpc[q])]
    /\ qpc' = [qpc EXCEPT ![q] = "done"]
    /\ UNCHANGED <<now, ticks, vertices, edges, qin, qpath, qlog, jpc, jinfo, fa, ens_world, dlog>>
    /\ UNCHANGED <<rq, up>>
    /\ UNCHANGED rec
    /\ UNCHANGED iq
    /\ UNCHANGED asked
    /\ UNCHANGED af
    /\ UNCHANGED nb
    /\ UNCHANGED nq
    /\ UNCHANGED pj
    /\ UNCHANGED rc
    /\ UNCHANGED tg
    /\ UNCHANGED ld

\* the first lookup finds a record that is not outdated
QueryFresh(q) ==
    /\ MayStart(q)
    /\ \E <<ps, id>> \in asked :
        LET platform == ParsePlatform(ps)
            found == FindByPlatformIdentity(vertices, platform, id) IN
        /\ platform # "error"
        /\ found.kind = "some"
        /\ ~SpawnsRefetch(found, now)
        /\ qin' = [qin EXCEPT ![q] = [platform |-> platform, identity |-> id,
                                      target |-> QueryTarget(platform, id),
                                      found |-> found]]
        /\ qresp' = [qresp EXCEPT ![q] = RespOf(WarmResponse(found, found), now)]
        /\ qlog' = [qlog EXCEPT ![q] = Append(@, LogEntry(found, q))]
    /\ qpc' = [qpc EXCEPT ![q] = "done"]
    /\ qpath' = [qpath EXCEPT ![q] = "fresh"]
    /\ UNCHANGED <<now, ticks, vertices, edges, jpc, jinfo, fa, ens_world, dlog>>
    /\ UNCHANGED <<rq, up>>
    /\ UNCHANGED rec
    /\ UNCHANGED iq
    /\ UNCHANGED asked
    /\ UNCHANGED af
    /\ UNCHANGED nb
    /\ UNCHANGED nq
    /\ UNCHANGED pj
    /\ UNCHANGED rc
    /\ UNCHANGED tg
    /\ UNCHANGED ld

\* one adapter fetch of the request's fetch_all completes
QueryFetch(q) ==
    /\ qpc[q] = "fetching"
    /\ fa[q].status = "running"
    /\ \E r \in EngineSteps(fa[q], vertices, edges, now, ens_world) :
        /\ fa' = [fa EXCEPT ![q] = r.f]
        /\ vertices' = r.vertices
        /\ edges' = r.edges
        /\ qpc' = [qpc EXCEPT ![q] = IF r.f.status = "panicked" THEN "panicked" ELSE @]
    /\ UNCHANGED <<now, ticks, qin, qresp, qpath, qlog, jpc, jinfo, ens_world, dlog>>
    /\ UNCHANGED <<rq, up>>
    /\ UNCHANGED rec
    /\ UNCHANGED iq
    /\ UNCHANGED asked
    /\ UNCHANGED af
    /\ UNCHANGED nb
    /\ UNCHANGED nq
    /\ UNCHANGED pj
    /\ UNCHANGED rc
    /\ UNCHANGED tg
    /\ UNCHANGED ld

\* a handler that awaits fetch_all with `?`
AwaitedPropagating(status) == status

\* match fetch_all(..).await { Ok(_) => {}, Err(err) => event!(WARN, ..) }:
\* whatever fetch_all returned, the handler goes on
Awaited(status) == "ok"

\* fetch_all has returned (its error only logged): the second lookup
QueryLookup2(q) ==
    /\ qpc[q] = "fetching"
    /\ fa[q].status \in {"ok", "err"}
    /\ \E store_ok \in BOOLEAN :
        LET second == FindByPlatformIdentity(vertices, qin[q].platform, qin[q].identity) IN
        IF Awaited(fa[q].status) = "err"
        THEN /\ qresp' = [qresp EXCEPT ![q] = ErrResp]
             /\ qlog' = qlog
        ELSE IF store_ok
        THEN /\ qresp' = [qresp EXCEPT ![q] = RespOf(ColdResponse(qin[q].found, second), now)]
             /\ qlog' = [qlog EXCEPT ![q] = Append(@, LogEntry(second, q))]
        ELSE /\ qresp' = [qresp EXCEPT ![q] = ErrResp]
             /\ qlog' = [qlog EXCEPT ![q] = Append(@, LogEntry(ErrFound, q))]
    /\ qpc' = [qpc EXCEPT ![q] = "done"]
    /\ UNCHANGED <<now, ticks, vertices, edges, qin, qpath, jpc, jinfo, fa, ens_world, dlog>>
    /\ UNCHANGED <<rq, up>>
    /\ UNCHANGED rec
    /\ UNCHANGED iq
    /\ UNCHANGED asked
    /\ UNCHANGED af
    /\ UNCHANGED nb
    /\ UNCHANGED nq
    /\ UNCHANGED pj
    /\ UNCHANGED rc
    /\ UNCHANGED tg
    /\ UNCHANGED ld

(***************************************************************************)
(* The background task: sleep, delete, fetch_all.                          *)
(***************************************************************************)
\* the earliest time sleep(Duration::from_secs(10)) can return
WakeTime(spawned_at, t) == Max(t, spawned_at + GraceSecs)

\* delete_graph_inner_connection(&client, v_id).await?
AfterDelete(ok) == IF ok THEN "fetch" ELSE "failed"

\* where the task stands once its fetch_all has this status
AfterFetchAll(status) ==
    CASE status = "running" -> "fetch"
      [] status = "ok" -> "done"
      [] status = "err" -> "failed"
      [] OTHER -> "panicked"

\* the task's record of the moment it ends: the stored row of its v_id
EndOf(j, status, vs, t) ==
    IF status \in {"ok", "err", "panicked"}
    THEN [j EXCEPT !.ended_at = t,
                   !.events = IF status = "err" THEN @ \cup FailureEvents("fetch_all")
                              ELSE @,
                   !.end_rec = IF j.v_id \in DOMAIN vs
                               THEN [kind |-> "some", v_id |-> j.v_id,
                                     updated_at |-> vs[j.v_id].updated_at]
                               ELSE NoneFound]
    ELSE j

\* the sleep returns
JobWake(q) ==
    /\ jpc[q] = "sleep"
    /\ now' = WakeTime(jinfo[q].spawned_at, now)
    /\ jpc' = [jpc EXCEPT ![q] = "delete"]
    /\ jinfo' = [jinfo EXCEPT ![q].woke_at = now']
    /\ UNCHANGED <<ticks, vertices, edges, qpc, qin, qresp, qpath, qlog, fa, ens_world, dlog>>
    /\ UNCHANGED <<rq, up>>
    /\ UNCHANGED rec
    /\ UNCHANGED iq
    /\ UNCHANGED asked
    /\ UNCHANGED af
    /\ UNCHANGED nb
    /\ UNCHANGED nq
    /\ UNCHANGED pj
    /\ UNCHANGED rc
    /\ UNCHANGED tg
    /\ UNCHANGED ld

\* the delete returns; on Ok the task goes on to fetch_all(vec![target], Some(3))
JobDelete(q) ==
    /\ jpc[q] = "delete"
    /\ \E ok \in BOOLEAN :
        /\ IF ok
           THEN /\ vertices' = DeleteVertices(vertices, jinfo[q].v_id)
                /\ edges' = DeleteEdges(edges, jinfo[q].v_id)
           ELSE UNCHANGED <<vertices, edges>>
        /\ IF AfterDelete(ok) = "fetch"
           THEN /\ fa' = [fa EXCEPT ![q] = NewFetchAll({jinfo[q].target}, QueryDepth)]
                /\ jpc' = [jpc EXCEPT ![q] = AfterFetchAll(fa'[q].status)]
                /\ jinfo' = [jinfo EXCEPT ![q] =
                        EndOf([@ EXCEPT !.deleted_at = now,
                                        !.delete_result = IF ok THEN "ok" ELSE "err"],
                              fa'[q].status, vertices', now)]
           ELSE /\ fa' = fa
                /\ jpc' = [jpc EXCEPT ![q] = AfterDelete(ok)]
                /\ jinfo' = [jinfo EXCEPT ![q].deleted_at = now,
                                          ![q].delete_result = IF ok THEN "ok" ELSE "err",
                                          ![q].events = @ \cup FailureEvents("delete"),
                                          ![q].ended_at = now]
    /\ UNCHANGED <<now, ticks, qpc, qin, qresp, qpath, qlog, ens_world, dlog>>
    /\ UNCHANGED <<rq, up>>
    /\ UNCHANGED rec
    /\ UNCHANGED iq
    /\ UNCHANGED asked
    /\ UNCHANGED af
    /\ UNCHANGED nb
    /\ UNCHANGED nq
    /\ UNCHANGED pj
    /\ UNCHANGED rc
    /\ UNCHANGED tg
    /\ UNCHANGED ld

\* one adapter fetch of the task's fetch_all completes
JobFetch(q) ==
    /\ jpc[q] = "fetch"
    /\ fa[q].status = "running"
    /\ \E r \in EngineSteps(fa[q], vertices, edges, now, ens_world) :
        /\ fa' = [fa EXCEPT ![q] = r.f]
        /\ vertices' = r.vertices
        /\ edges' = r.edges
        /\ jpc' = [jpc EXCEPT ![q] = AfterFetchAll(r.f.status)]
        /\ jinfo' = [jinfo EXCEPT ![q] = EndOf(@, r.f.status, r.vertices, now)]
    /\ UNCHANGED <<now, ticks, qpc, qin, qresp, qpath, qlog, ens_world, dlog>>
    /\ UNCHANGED <<rq, up>>
    /\ UNCHANGED rec
    /\ UNCHANGED iq
    /\ UNCHANGED asked
    /\ UNCHANGED af
    /\ UNCHANGED nb
    /\ UNCHANGED nq
    /\ UNCHANGED pj
    /\ UNCHANGED rc
    /\ UNCHANGED tg
    /\ UNCHANGED ld

(***************************************************************************)
(* The service: requests, their background tasks, the clock.               *)
(***************************************************************************)
\* the steps of the requests and of their tasks
Serve ==
    \/ \E q \in Queries : QueryParamError(q)
    \/ \E q \in Queries : QueryStoreError(q)
    \/ \E q \in Queries : QueryCold(q)
    \/ \E q \in Queries : QueryStale(q)
    \/ \E q \in Queries : QueryReturn(q)
    \/ \E q \in Queries : QueryFresh(q)
    \/ \E q \in Queries : QueryFetch(q)
    \/ \E q \in Queries : QueryLookup2(q)
    \/ \E q \in Queries : JobWake(q)
    \/ \E q \in Queries : JobDelete(q)
    \/ \E q \in Queries : JobFetch(q)

Next == Tick \/ Serve

Spec == Init /\ [][Next]_vars

(***************************************************************************)
(* The identity handler asked for an ENS name as well as for a wallet: the *)
(* branch of the target on Platform::ENS.                                  *)
(***************************************************************************)
TargetInit ==
    /\ now = 0
    /\ ticks = 0
    /\ vertices \in {EmptyStore, [k \in {WalletKey} |-> NowRecord(0)]}
    /\ edges = {}
    /\ qpc = [q \in Queries |-> "idle"]
    /\ qin = [q \in Queries |-> NoInput]
    /\ qresp = [q \in Queries |-> NoResp]
    /\ qpath = [q \in Queries |-> "none"]
    /\ qlog = [q \in Queries |-> <<>>]
    /\ jpc = [q \in Queries |-> "none"]
    /\ jinfo = [q \in Queries |-> NoJob]
    /\ fa = [c \in Callers |-> IdleFetch]
    /\ ens_world = {"a.eth"}
    /\ dlog = NoLog
    /\ rq = NoRequest
    /\ up = NoUpserts
    /\ rec = NoCall
    /\ iq = NoListing
    /\ asked = {<<"ENS", "a.eth">>, <<"ethereum", Wallet>>, <<"bogus", Wallet>>}
    /\ af = NoAdapterCall
    /\ nb = NoNeighbors
    /\ nq = NoNfts
    /\ pj = NoProjection
    /\ rc = [docs |-> {}, call |-> [c \in 1..MaxConnects |-> NoConnect]]
    /\ tg = NoTheGraphCall
    /\ ld = NoLoad

TargetSpec == TargetInit /\ [][Next]_vars

\* the target the request q has to work on, from its parsed parameters
RoutedTarget(q) ==
    IF qin[q].platform = PlatformENS
    THEN TargetNFT(ChainEthereum, CategoryENS, EnsContractAddress, qin[q].identity)
    ELSE TargetIdentity(qin[q].platform, qin[q].identity)

\* C27: a request for platform ENS works on the NFT target (ethereum, ENS,
\* the ENS contract address, the name), every other request on the Identity
\* target of its platform and identity; that one target seeds the fetch_all
\* of the cold path and is the one the background task of the stale path
\* refetches.
OneTargetRoutedByPlatform ==
    \A q \in Queries :
        /\ qpath[q] \in {"cold", "stale"} => qin[q].target = RoutedTarget(q)
        /\ (qpath[q] = "cold" /\ fa[q].status = "running") =>
                Canonical(RoutedTarget(q)) \in fa[q].visited
        /\ qpath[q] = "stale" =>
                /\ jinfo[q].target = RoutedTarget(q)
                /\ fa[q].status = "running" =>
                        Canonical(RoutedTarget(q)) \in fa[q].visited

\* an ENS name was fetched on the cold path and answered, and the task of a
\* stale wallet is in its fetch_all
EnsColdAndWalletRefetched ==
    \E q1, q2 \in Queries :
        /\ qpath[q1] = "cold" /\ qin[q1].platform = PlatformENS /\ qpc[q1] = "done"
        /\ qin[q1].target.kind = "NFT"
        /\ qpath[q2] = "stale" /\ qin[q2].platform = PlatformEthereum
        /\ jpc[q2] = "fetch" /\ fa[q2].status = "running"

(***************************************************************************)
(* fetch_all invoked directly, on any seeds and depth.                     *)
(***************************************************************************)
SeedTargets ==
    {TargetIdentity(PlatformEthereum, Wallet), TargetIdentity(PlatformEthereum, WalletMixed),
     TargetIdentity(PlatformTwitter, Wallet)} \cup {EnsTarget(n) : n \in EnsNames}

\* seed lists of canonically distinct targets
SeedSets ==
    {S \in SUBSET SeedTargets :
        /\ Cardinality(S) <= MaxSeeds
        /\ \A x, y \in S : Canonical(x) = Canonical(y) => x = y}

\* the (canonical target, adapter, layer) triples a layer hands to the adapters
Triples(f) == {<<Canonical(pr[1]), pr[2], f.layer>> : pr \in f.pending}

FetchInit ==
    /\ now = 0
    /\ ticks = 0
    /\ vertices \in {EmptyStore, [k \in {WalletKey} |-> NowRecord(0)]}
    /\ edges = {}
    /\ qpc = [q \in Queries |-> "idle"]
    /\ qin = [q \in Queries |-> NoInput]
    /\ qresp = [q \in Queries |-> NoResp]
    /\ qpath = [q \in Queries |-> "none"]
    /\ qlog = [q \in Queries |-> <<>>]
    /\ jpc = [q \in Queries |-> "none"]
    /\ jinfo = [q \in Queries |-> NoJob]
    /\ fa = [c \in Callers |-> IdleFetch]
    /\ ens_world = EnsNames
    /\ dlog = NoLog
    /\ rq = NoRequest
    /\ up = NoUpserts
    /\ rec = NoCall
    /\ iq = NoListing
    /\ asked = PlatformStrings \X QueryIdentities
    /\ af = NoAdapterCall
    /\ nb = NoNeighbors
    /\ nq = NoNfts
    /\ pj = NoProjection
    /\ rc = [docs |-> {}, call |-> [c \in 1..MaxConnects |-> NoConnect]]
    /\ tg = NoTheGraphCall
    /\ ld = NoLoad

\* fetch_all(seeds, max_depth) is called
DirectStart ==
    /\ fa[Direct].status = "idle"
    /\ \E seeds \in SeedSets, max_depth \in 0..QueryDepth :
        /\ fa' = [fa EXCEPT ![Direct] = NewFetchAll(seeds, max_depth)]
        /\ dlog' = [NoLog EXCEPT !.seeds = seeds, !.max_depth = max_depth,
                                 !.dispatched = Triples(fa'[Direct]),
                                 !.redispatched =
                                    Cardinality(Triples(fa'[Direct]))
                                        # Cardinality(fa'[Direct].pending)]
    /\ UNCHANGED <<now, ticks, vertices, edges, qpc, qin, qresp, qpath, qlog, jpc, jinfo,
                   ens_world>>
    /\ UNCHANGED <<rq, up>>
    /\ UNCHANGED rec
    /\ UNCHANGED iq
    /\ UNCHANGED asked
    /\ UNCHANGED af
    /\ UNCHANGED nb
    /\ UNCHANGED nq
    /\ UNCHANGED pj
    /\ UNCHANGED rc
    /\ UNCHANGED tg
    /\ UNCHANGED ld

\* one adapter fetch of the direct invocation completes
DirectFetch ==
    /\ fa[Direct].status = "running"
    /\ \E r \in EngineSteps(fa[Direct], vertices, edges, now, ens_world) :
        LET new == IF fa[Direct].pending = {r.pr} /\ r.f.status = "running"
                   THEN Triples(r.f) ELSE {} IN
        /\ fa' = [fa EXCEPT ![Direct] = r.f]
        /\ vertices' = r.vertices
        /\ edges' = r.edges
        /\ dlog' = [dlog EXCEPT
                !.ran = @ \cup {<<Canonical(r.pr[1]), r.pr[2], fa[Direct].layer>>},
                !.any_fail = @ \/ r.result = "err",
                !.dispatched = @ \cup new,
                !.redispatched = \/ @
                                 \/ \E x \in new : \E l \in 0..QueryDepth :
                                        <<x[1], x[2], l>> \in dlog.dispatched
                                 \/ new # {}
                                    /\ Cardinality(new) # Cardinality(r.f.pending),
                !.ok_next = IF r.result = "ok"
                            THEN @ \cup {<<x, fa[Direct].layer>> : x \in r.next} ELSE @,
                !.ok_writes = IF r.result = "ok"
                              THEN @ \cup {k \in DOMAIN r.vertices :
                                            \/ k \notin DOMAIN vertices
                                            \/ r.vertices[k] # vertices[k]}
                              ELSE @]
    /\ UNCHANGED <<now, ticks, qpc, qin, qresp, qpath, qlog, jpc, jinfo, ens_world>>
    /\ UNCHANGED <<rq, up>>
    /\ UNCHANGED rec
    /\ UNCHANGED iq
    /\ UNCHANGED asked
    /\ UNCHANGED af
    /\ UNCHANGED nb
    /\ UNCHANGED nq
    /\ UNCHANGED pj
    /\ UNCHANGED rc
    /\ UNCHANGED tg
    /\ UNCHANGED ld

\* time passes while the fetches are in flight
FetchTick ==
    /\ ticks < MaxTicks
    /\ fa[Direct].status = "running"
    /\ now' = now + 1
    /\ ticks' = ticks + 1
    /\ UNCHANGED <<vertices, edges, qpc, qin, qresp, qpath, qlog, jpc, jinfo, fa,
                   ens_world, dlog>>
    /\ UNCHANGED <<rq, up>>
    /\ UNCHANGED rec
    /\ UNCHANGED iq
    /\ UNCHANGED asked
    /\ UNCHANGED af
    /\ UNCHANGED nb
    /\ UNCHANGED nq
    /\ UNCHANGED pj
    /\ UNCHANGED rc
    /\ UNCHANGED tg
    /\ UNCHANGED ld

FetchNext == DirectStart \/ DirectFetch \/ FetchTick

FetchSpec == FetchInit /\ [][FetchNext]_vars

(***************************************************************************)
(* fetch_all invoked an hour after the wallet's record was written.        *)
(***************************************************************************)
RefetchInit ==
    /\ now = OutdatedInSecs + 1
    /\ ticks = 0
    /\ vertices \in {EmptyStore, [k \in {WalletKey} |-> NowRecord(0)]}
    /\ edges = {}
    /\ qpc = [q \in Queries |-> "idle"]
    /\ qin = [q \in Queries |-> NoInput]
    /\ qresp = [q \in Queries |-> NoResp]
    /\ qpath = [q \in Queries |-> "none"]
    /\ qlog = [q \in Queries |-> <<>>]
    /\ jpc = [q \in Queries |-> "none"]
    /\ jinfo = [q \in Queries |-> NoJob]
    /\ fa = [c \in Callers |-> IdleFetch]
    /\ ens_world = EnsNames
    /\ dlog = NoLog
    /\ rq = NoRequest
    /\ up = NoUpserts
    /\ rec = NoCall
    /\ iq = NoListing
    /\ asked = PlatformStrings \X QueryIdentities
    /\ af = NoAdapterCall
    /\ nb = NoNeighbors
    /\ nq = NoNfts
    /\ pj = NoProjection
    /\ rc = [docs |-> {}, call |-> [c \in 1..MaxConnects |-> NoConnect]]
    /\ tg = NoTheGraphCall
    /\ ld = NoLoad

RefetchSpec == RefetchInit /\ [][FetchNext]_vars

(***************************************************************************)
(* fetch_all run a second time on the same seeds, every adapter fetch      *)
(* getting the response, and the store the cooperation, of the first run.  *)
(***************************************************************************)
\* what a fetch got: its target and adapter, what it returned and what it wrote
Response(r) == <<Canonical(r.pr[1]), r.pr[2], r.result, r.next, r.wrote>>

\* one adapter fetch of the first run completes
RerunFetch ==
    /\ fa[Direct].status = "running"
    /\ ~dlog.rerun
    /\ \E r \in EngineSteps(fa[Direct], vertices, edges, now, ens_world) :
        /\ fa' = [fa EXCEPT ![Direct] = r.f]
        /\ vertices' = r.vertices
        /\ edges' = r.edges
        /\ dlog' = [dlog EXCEPT !.trace = @ \cup {Response(r)}]
    /\ UNCHANGED <<now, ticks, qpc, qin, qresp, qpath, qlog, jpc, jinfo, ens_world, rq, up>>
    /\ UNCHANGED rec
    /\ UNCHANGED iq
    /\ UNCHANGED asked
    /\ UNCHANGED af
    /\ UNCHANGED nb
    /\ UNCHANGED nq
    /\ UNCHANGED pj
    /\ UNCHANGED rc
    /\ UNCHANGED tg
    /\ UNCHANGED ld

\* the first run has returned: fetch_all is called again on its seeds
RerunAgain ==
    /\ fa[Direct].status \in {"ok", "err"}
    /\ ~dlog.rerun
    /\ \E d \in {0, 1} : now' = now + d
    /\ fa' = [fa EXCEPT ![Direct] = NewFetchAll(dlog.seeds, dlog.max_depth)]
    /\ dlog' = [dlog EXCEPT !.rerun = TRUE,
                            !.first = [vertices |-> vertices, edges |-> edges]]
    /\ UNCHANGED <<ticks, vertices, edges, qpc, qin, qresp, qpath, qlog, jpc, jinfo,
                   ens_world, rq, up>>
    /\ UNCHANGED rec
    /\ UNCHANGED iq
    /\ UNCHANGED asked
    /\ UNCHANGED af
    /\ UNCHANGED nb
    /\ UNCHANGED nq
    /\ UNCHANGED pj
    /\ UNCHANGED rc
    /\ UNCHANGED tg
    /\ UNCHANGED ld

\* one adapter fetch of the second run completes as it did in the first
RerunReplay ==
    /\ fa[Direct].status = "running"
    /\ dlog.rerun
    /\ \E r \in EngineSteps(fa[Direct], vertices, edges, now, ens_world) :
        /\ Response(r) \in dlog.trace
        /\ fa' = [fa EXCEPT ![Direct] = r.f]
        /\ vertices' = r.vertices
        /\ edges' = r.edges
    /\ UNCHANGED <<now, ticks, qpc, qin, qresp, qpath, qlog, jpc, jinfo, ens_world, dlog, rq, up>>
    /\ UNCHANGED rec
    /\ UNCHANGED iq
    /\ UNCHANGED asked
    /\ UNCHANGED af
    /\ UNCHANGED nb
    /\ UNCHANGED nq
    /\ UNCHANGED pj
    /\ UNCHANGED rc
    /\ UNCHANGED tg
    /\ UNCHANGED ld

RerunNext == DirectStart \/ RerunFetch \/ RerunAgain \/ RerunReplay

RerunSpec == RefetchInit /\ [][RerunNext]_vars

(***************************************************************************)
(* Upserts of Identity values to one row, from any prior state of it.      *)
(***************************************************************************)
\* the row is absent, or is what an earlier upsert left
PriorRows == {NoRows} \cup {CreateOrUpdate(NoRows, WalletKey, i) : i \in IdentityValues}

UpsertInit ==
    /\ now = 0
    /\ ticks = 0
    /\ vertices = EmptyStore
    /\ edges = {}
    /\ qpc = [q \in Queries |-> "idle"]
    /\ qin = [q \in Queries |-> NoInput]
    /\ qresp = [q \in Queries |-> NoResp]
    /\ qpath = [q \in Queries |-> "none"]
    /\ qlog = [q \in Queries |-> <<>>]
    /\ jpc = [q \in Queries |-> "none"]
    /\ jinfo = [q \in Queries |-> NoJob]
    /\ fa = [c \in Callers |-> IdleFetch]
    /\ ens_world = EnsNames
    /\ dlog = NoLog
    /\ rq = NoRequest
    /\ rec = NoCall
    /\ \E r \in PriorRows :
        up = [NoUpserts EXCEPT !.rows = r, !.before = r,
                               !.max_in = IF WalletKey \in DOMAIN r
                                          THEN r[WalletKey].updated_at ELSE 0]
    /\ iq = NoListing
    /\ asked = PlatformStrings \X QueryIdentities
    /\ af = NoAdapterCall
    /\ nb = NoNeighbors
    /\ nq = NoNfts
    /\ pj = NoProjection
    /\ rc = [docs |-> {}, call |-> [c \in 1..MaxConnects |-> NoConnect]]
    /\ tg = NoTheGraphCall
    /\ ld = NoLoad

\* i.create_or_update(&client)
UpsertOnce ==
    /\ up.n < MaxUpserts
    /\ \E i \in IdentityValues :
        up' = [rows |-> CreateOrUpdate(up.rows, WalletKey, i), before |-> up.rows,
               last |-> <<i>>, n |-> up.n + 1,
               max_in |-> IF i.updated_at > up.max_in THEN i.updated_at ELSE up.max_in,
               repeated |-> FALSE]
    /\ UNCHANGED <<now, ticks, vertices, edges, qpc, qin, qresp, qpath, qlog, jpc, jinfo,
                   fa, ens_world, dlog, rq>>
    /\ UNCHANGED rec
    /\ UNCHANGED iq
    /\ UNCHANGED asked
    /\ UNCHANGED af
    /\ UNCHANGED nb
    /\ UNCHANGED nq
    /\ UNCHANGED pj
    /\ UNCHANGED rc
    /\ UNCHANGED tg
    /\ UNCHANGED ld

\* the value upserted last is upserted again
UpsertAgain ==
    /\ up.n < MaxUpserts
    /\ up.last # <<>>
    /\ up' = [up EXCEPT !.rows = CreateOrUpdate(up.rows, WalletKey, up.last[1]),
                        !.before = up.rows, !.n = @ + 1, !.repeated = TRUE]
    /\ UNCHANGED <<now, ticks, vertices, edges, qpc, qin, qresp, qpath, qlog, jpc, jinfo,
                   fa, ens_world, dlog, rq>>
    /\ UNCHANGED rec
    /\ UNCHANGED iq
    /\ UNCHANGED asked
    /\ UNCHANGED af
    /\ UNCHANGED nb
    /\ UNCHANGED nq
    /\ UNCHANGED pj
    /\ UNCHANGED rc
    /\ UNCHANGED tg
    /\ UNCHANGED ld

UpsertNext == UpsertOnce \/ UpsertAgain

UpsertSpec == UpsertInit /\ [][UpsertNext]_vars

(***************************************************************************)
(* The methods of a record handed to the client: status and is_outdated,   *)
(* on any id and on ages around the two TTLs.                              *)
(***************************************************************************)
\* updated_at of the record, and its age when the method is called
RecordStamps == {0, 1}

RecordAges ==
    {OutdatedInSecs - 1, OutdatedInSecs, OutdatedInSecs + 1,
     ResolveOutdatedInSecs - 1, ResolveOutdatedInSecs, ResolveOutdatedInSecs + 1}

\* v_id of the record: empty, or the id of a stored vertex
RecordIds == {<<>>, WalletKey, IdentityKey(PlatformTwitter, Wallet)}

RecordInit ==
    /\ \E u \in RecordStamps, a \in RecordAges, id \in RecordIds :
        /\ now = u + a
        /\ rec = [NoCall EXCEPT !.v_id = id, !.updated_at = u]
    /\ ticks = 0
    /\ vertices = EmptyStore
    /\ edges = {}
    /\ qpc = [q \in Queries |-> "idle"]
    /\ qin = [q \in Queries |-> NoInput]
    /\ qresp = [q \in Queries |-> NoResp]
    /\ qpath = [q \in Queries |-> "none"]
    /\ qlog = [q \in Queries |-> <<>>]
    /\ jpc = [q \in Queries |-> "none"]
    /\ jinfo = [q \in Queries |-> NoJob]
    /\ fa = [c \in Callers |-> IdleFetch]
    /\ ens_world = EnsNames
    /\ dlog = NoLog
    /\ rq = NoRequest
    /\ up = NoUpserts
    /\ iq = NoListing
    /\ asked = PlatformStrings \X QueryIdentities
    /\ af = NoAdapterCall
    /\ nb = NoNeighbors
    /\ nq = NoNfts
    /\ pj = NoProjection
    /\ rc = [docs |-> {}, call |-> [c \in 1..MaxConnects |-> NoConnect]]
    /\ tg = NoTheGraphCall
    /\ ld = NoLoad

\* IdentityRecord::status
CallStatus ==
    /\ rec.call = "none"
    /\ rec' = [rec EXCEPT !.call = "status",
                          !.status = DataStatus(rec.v_id, rec.updated_at, now)]
    /\ UNCHANGED <<now, ticks, vertices, edges, qpc, qin, qresp, qpath, qlog, jpc, jinfo,
                   fa, ens_world, dlog, rq, up>>
    /\ UNCHANGED iq
    /\ UNCHANGED asked
    /\ UNCHANGED af
    /\ UNCHANGED nb
    /\ UNCHANGED nq
    /\ UNCHANGED pj
    /\ UNCHANGED rc
    /\ UNCHANGED tg
    /\ UNCHANGED ld

\* Identity::is_outdated
CallIsOutdated ==
    /\ rec.call = "none"
    /\ rec' = [rec EXCEPT !.call = "is_outdated",
                          !.outdated = IsOutdated(rec.updated_at, now)]
    /\ UNCHANGED <<now, ticks, vertices, edges, qpc, qin, qresp, qpath, qlog, jpc, jinfo,
                   fa, ens_world, dlog, rq, up>>
    /\ UNCHANGED iq
    /\ UNCHANGED asked
    /\ UNCHANGED af
    /\ UNCHANGED nb
    /\ UNCHANGED nq
    /\ UNCHANGED pj
    /\ UNCHANGED rc
    /\ UNCHANGED tg
    /\ UNCHANGED ld

\* Resolve::is_outdated
CallResolveIsOutdated ==
    /\ rec.call = "none"
    /\ rec' = [rec EXCEPT !.call = "resolve_is_outdated",
                          !.outdated = ResolveIsOutdated(rec.updated_at, now)]
    /\ UNCHANGED <<now, ticks, vertices, edges, qpc, qin, qresp, qpath, qlog, jpc, jinfo,
                   fa, ens_world, dlog, rq, up>>
    /\ UNCHANGED iq
    /\ UNCHANGED asked
    /\ UNCHANGED af
    /\ UNCHANGED nb
    /\ UNCHANGED nq
    /\ UNCHANGED pj
    /\ UNCHANGED rc
    /\ UNCHANGED tg
    /\ UNCHANGED ld

RecordNext == CallStatus \/ CallIsOutdated \/ CallResolveIsOutdated

RecordSpec == RecordInit /\ [][RecordNext]_vars

(***************************************************************************)
(* One adapter fetch for Identity(ethereum, address), then the lookup of   *)
(* the owner: the run of test_knn3 and test_smoke_nft_rss3.                *)
(***************************************************************************)
\* the addresses handed to the adapters: lowercase and mixed case
TestAddresses == {Wallet, WalletMixed}

\* the stores the fetch may find: empty, the wallet under its lowercase
\* address, or under the mixed-case address sybil_list keeps as listed
AdapterStores ==
    {EmptyStore} \cup {[k \in {IdentityKey(PlatformEthereum, a)} |-> NowRecord(0)]
                         : a \in TestAddresses}

AdapterInit ==
    /\ now \in {0, 1}
    /\ ticks = 0
    /\ vertices \in AdapterStores
    /\ edges = {}
    /\ qpc = [q \in Queries |-> "idle"]
    /\ qin = [q \in Queries |-> NoInput]
    /\ qresp = [q \in Queries |-> NoResp]
    /\ qpath = [q \in Queries |-> "none"]
    /\ qlog = [q \in Queries |-> <<>>]
    /\ jpc = [q \in Queries |-> "none"]
    /\ jinfo = [q \in Queries |-> NoJob]
    /\ fa = [c \in Callers |-> IdleFetch]
    /\ ens_world = EnsNames
    /\ dlog = NoLog
    /\ rq = NoRequest
    /\ up = NoUpserts
    /\ rec = NoCall
    /\ iq = NoListing
    /\ asked = PlatformStrings \X QueryIdentities
    /\ af = NoAdapterCall
    /\ nb = NoNeighbors
    /\ nq = NoNfts
    /\ pj = NoProjection
    /\ rc = [docs |-> {}, call |-> [c \in 1..MaxConnects |-> NoConnect]]
    /\ tg = NoTheGraphCall
    /\ ld = NoLoad

\* adapter.fetch(&Target::Identity(Platform::Ethereum, address)).await returns
AdapterRun ==
    /\ af.pc = "idle"
    /\ \E a \in Adapters, address \in TestAddresses :
        \E o \in AdapterFetch(a, TargetIdentity(PlatformEthereum, address),
                              vertices, edges, now, ens_world) :
            /\ vertices' = o.vertices
            /\ edges' = o.edges
            /\ af' = [af EXCEPT !.pc = IF o.result = "ok" THEN "fetched" ELSE "done",
                                 !.adapter = a, !.address = address,
                                 !.result = o.result, !.wrote = o.wrote]
    /\ UNCHANGED <<now, ticks, qpc, qin, qresp, qpath, qlog, jpc, jinfo, fa, ens_world, dlog>>
    /\ UNCHANGED <<rq, up, rec, iq, asked>>
    /\ UNCHANGED nb
    /\ UNCHANGED nq
    /\ UNCHANGED pj
    /\ UNCHANGED rc
    /\ UNCHANGED tg
    /\ UNCHANGED ld

\* Identity::find_by_platform_identity(&db, &Platform::Ethereum, &address).await?
AdapterOwner ==
    /\ af.pc = "fetched"
    /\ af' = [af EXCEPT !.pc = "done",
                         !.owner = FindByPlatformIdentity(vertices, PlatformEthereum,
                                                          af.address)]
    /\ UNCHANGED <<now, ticks, vertices, edges, qpc, qin, qresp, qpath, qlog, jpc, jinfo,
                   fa, ens_world, dlog>>
    /\ UNCHANGED <<rq, up, rec, iq, asked>>
    /\ UNCHANGED nb
    /\ UNCHANGED nq
    /\ UNCHANGED pj
    /\ UNCHANGED rc
    /\ UNCHANGED tg
    /\ UNCHANGED ld

AdapterNext == AdapterRun \/ AdapterOwner

AdapterSpec == AdapterInit /\ [][AdapterNext]_vars

\* the edges the fetch wrote that record a holding: the_graph's Hold of an
\* ENS name, rss3's Proof of a collection
Holdings == {e \in af.wrote.edges : e.kind \in {"Hold", "Proof"}}

\* C28: after an adapter's fetch for Identity(ethereum, a) succeeded, every
\* holding it persisted belongs to the vertex that
\* find_by_platform_identity(ethereum, a) returns.
HoldingsBelongToLookedUpOwner ==
    (af.pc = "done" /\ af.result = "ok") =>
        \A e \in Holdings : af.owner.kind = "some" /\ e.from = af.owner.v_id

(***************************************************************************)
(* IdentityRecord::neighbors on one graph.                                 *)
(***************************************************************************)
\* the identities of the graph
NeighborIds ==
    {WalletKey, IdentityKey(PlatformTwitter, Wallet), IdentityKey(PlatformENS, "a.eth")}

\* the edges a graph may hold: two identities joined, marked reverse or not
NeighborEdges ==
    {[ends |-> {x, y}, reverse |-> b] : x \in NeighborIds, y \in NeighborIds, b \in BOOLEAN}
        \ {[ends |-> {x}, reverse |-> b] : x \in NeighborIds, b \in BOOLEAN}

\* reverse.map_or(0, |r| match r { true => 1, false => 2 })
ReverseFlag(reverse) ==
    IF reverse = None THEN 0 ELSE IF reverse = "true" THEN 1 ELSE 2

\* the edges the stored query walks under reverse_flag
KeptEdges(g, flag) ==
    IF flag = 0 THEN g
    ELSE IF flag = 1 THEN {e \in g : e.reverse}
    ELSE {e \in g : ~e.reverse}

RECURSIVE Within(_, _, _)
\* the identities within d hops of the identities S
Within(g, S, d) ==
    IF d = 0 THEN S
    ELSE Within(g, S \cup UNION {e.ends : e \in {x \in g : x.ends \cap S # {}}}, d - 1)

\* the stored query neighbors_with_source_reverse(p, depth, reverse_flag),
\* the origin among its vertices
NeighborsWithSourceReverse(g, p, depth, flag) == Within(KeptEdges(g, flag), {p}, depth)

\* what the store may answer: an error, no results, or the vertices of the
\* traversal, with or without the origin
StoreAnswers(g, p, depth, flag) ==
    {[kind |-> "error", vertices |-> {}], [kind |-> "none", vertices |-> {}]}
    \cup {[kind |-> "some", vertices |-> NeighborsWithSourceReverse(g, p, depth, flag) \ o]
            : o \in {{}, {p}}}

\* the vertices of the answer as they come
Unfiltered(vs, v_id) == vs

\* .filter(|target| target.identity.v_id != self.v_id)
WithoutSelf(vs, v_id) == {x \in vs : x # v_id}

NeighborsInit ==
    /\ now = 0
    /\ ticks = 0
    /\ vertices = EmptyStore
    /\ edges = {}
    /\ qpc = [q \in Queries |-> "idle"]
    /\ qin = [q \in Queries |-> NoInput]
    /\ qresp = [q \in Queries |-> NoResp]
    /\ qpath = [q \in Queries |-> "none"]
    /\ qlog = [q \in Queries |-> <<>>]
    /\ jpc = [q \in Queries |-> "none"]
    /\ jinfo = [q \in Queries |-> NoJob]
    /\ fa = [c \in Callers |-> IdleFetch]
    /\ ens_world = EnsNames
    /\ dlog = NoLog
    /\ rq = NoRequest
    /\ up = NoUpserts
    /\ rec = NoCall
    /\ iq = NoListing
    /\ asked = PlatformStrings \X QueryIdentities
    /\ af = NoAdapterCall
    /\ \E v \in NeighborIds, d \in 1..MaxDepth, g \in SUBSET NeighborEdges :
            nb = [NoNeighbors EXCEPT !.v_id = v, !.depth = d, !.graph = g]
    /\ nq = NoNfts
    /\ pj = NoProjection
    /\ rc = [docs |-> {}, call |-> [c \in 1..MaxConnects |-> NoConnect]]
    /\ tg = NoTheGraphCall
    /\ ld = NoLoad

\* self.neighbors(&client, depth, reverse).await
CallNeighbors ==
    /\ \E reverse \in ReverseArgs :
        /\ nb.call[reverse].state = "idle"
        /\ \E r \in StoreAnswers(nb.graph, nb.v_id, nb.depth, ReverseFlag(reverse)) :
            nb' = [nb EXCEPT !.call[reverse] =
                        [state |-> IF r.kind = "error" THEN "err" ELSE "ok",
                         flag |-> ReverseFlag(reverse),
                         answer |-> r.kind,
                         vertices |-> r.vertices,
                         result |-> WithoutSelf(r.vertices, nb.v_id)]]
    /\ UNCHANGED <<now, ticks, vertices, edges, qpc, qin, qresp, qpath, qlog, jpc, jinfo,
                   fa, ens_world, dlog>>
    /\ UNCHANGED <<rq, up, rec, iq, asked, af>>
    /\ UNCHANGED nq
    /\ UNCHANGED pj
    /\ UNCHANGED rc
    /\ UNCHANGED tg
    /\ UNCHANGED ld

NeighborsNext == CallNeighbors

NeighborsSpec == NeighborsInit /\ [][NeighborsNext]_vars

\* C29: the list neighbors returns never has an entry with v's own v_id,
\* whatever vertices the store's traversal returned.
NeighborsNeverReturnSelf ==
    \A reverse \in ReverseArgs : nb.v_id \notin nb.call[reverse].result

\* the store's answer held the origin along with another identity
OriginAmongAnswered ==
    \E reverse \in ReverseArgs :
        /\ nb.call[reverse].state = "ok"
        /\ nb.v_id \in nb.call[reverse].vertices
        /\ nb.call[reverse].result # {}

CategoryERC721 == "category_erc721"

\* limit.unwrap_or(100) and offset.unwrap_or(0)
NftDefaultLimit == 100
NftDefaultOffset == 0

\* Option<u16>: <<>> for None, <<n>> for Some(n)
UnwrapOr(o, default) == IF o = <<>> THEN default ELSE o[1]

\* the arguments `limit` and `offset` of nft
LimitArgs == {<<>>} \cup {<<n>> : n \in 1..MaxLimit}
OffsetArgs == {<<>>} \cup {<<n>> : n \in 0..MaxOffset}

\* the argument `category` of nfts: None, Some(vec![]) or Some(vec![ENS])
CategoryArgs ==
    {[given |-> FALSE, list |-> <<>>], [given |-> TRUE, list |-> <<>>],
     [given |-> TRUE, list |-> <<CategoryENS>>]}

\* the Hold edges of one identity, in the store's order
HoldLists ==
    UNION {{[i \in 1..n |-> [id |-> i, category |-> c[i]]]
                : c \in [1..n -> {CategoryENS, CategoryERC721}]}
            : n \in 0..MaxHolds}

\* the request with limit and offset in each other's place
StoreRequestSwapped(category, limit, offset) ==
    [categories |-> IF ~category.given \/ Len(category.list) = 0 THEN {}
                    ELSE Range(category.list),
     numPerPage |-> offset, pageNum |-> limit]

\* the URI of the stored query: nfts?p=..[&categories=..]&numPerPage=..&pageNum=..
StoreRequest(category, limit, offset) ==
    [categories |-> IF ~category.given \/ Len(category.list) = 0 THEN {}
                    ELSE Range(category.list),
     numPerPage |-> limit, pageNum |-> offset]

\* the holds of the categories asked for; every hold when none is named
HoldsOf(holds, categories) ==
    SelectSeq(holds, LAMBDA h : categories = {} \/ h.category \in categories)

\* the holds from position m to position n, none when m > n
Slice(seq, m, n) == [i \in 1..(IF n >= m THEN n - m + 1 ELSE 0) |-> seq[m + i - 1]]

\* the stored query nfts(p, categories, limit, offset): the `limit` holds
\* that follow the first `offset`
NftsQuery(holds, req) ==
    LET m == HoldsOf(holds, req.categories)
        last == IF req.pageNum + req.numPerPage <= Len(m)
                THEN req.pageNum + req.numPerPage ELSE Len(m)
    IN Slice(m, req.pageNum + 1, last)

\* what the store may answer: an error, no results, or the edges
NftsAnswers(holds, req) ==
    {[kind |-> "error", edges |-> <<>>], [kind |-> "none", edges |-> <<>>],
     [kind |-> "some", edges |-> NftsQuery(holds, req)]}

\* the early return of nfts without the test of the platform
NftsSkippedNever(platform) == FALSE

\* if self.attributes.platform != Platform::Ethereum { return Ok(vec![]); }
NftsSkipped(platform) == platform # PlatformEthereum

NftsInit ==
    /\ now = 0
    /\ ticks = 0
    /\ vertices = EmptyStore
    /\ edges = {}
    /\ qpc = [q \in Queries |-> "idle"]
    /\ qin = [q \in Queries |-> NoInput]
    /\ qresp = [q \in Queries |-> NoResp]
    /\ qpath = [q \in Queries |-> "none"]
    /\ qlog = [q \in Queries |-> <<>>]
    /\ jpc = [q \in Queries |-> "none"]
    /\ jinfo = [q \in Queries |-> NoJob]
    /\ fa = [c \in Callers |-> IdleFetch]
    /\ ens_world = EnsNames
    /\ dlog = NoLog
    /\ rq = NoRequest
    /\ up = NoUpserts
    /\ rec = NoCall
    /\ iq = NoListing
    /\ asked = PlatformStrings \X QueryIdentities
    /\ af = NoAdapterCall
    /\ nb = NoNeighbors
    /\ \E platform \in {PlatformEthereum, PlatformTwitter}, holds \in HoldLists,
          category \in CategoryArgs, limit \in LimitArgs :
            nq = [NoNfts EXCEPT !.platform = platform, !.holds = holds,
                                !.category = category, !.limit = limit]
    /\ pj = NoProjection
    /\ rc = [docs |-> {}, call |-> [c \in 1..MaxConnects |-> NoConnect]]
    /\ tg = NoTheGraphCall
    /\ ld = NoLoad

\* self.nft(ctx, category, limit, offset).await on an identity that nfts
\* answers without the store
CallNftSkipped ==
    /\ NftsSkipped(nq.platform)
    /\ \E offset \in OffsetArgs \ DOMAIN nq.page :
            nq' = [nq EXCEPT !.page = @ @@ (offset :>
                        [state |-> "ok", answer |-> "skipped", result |-> <<>>])]
    /\ UNCHANGED <<now, ticks, vertices, edges, qpc, qin, qresp, qpath, qlog, jpc, jinfo,
                   fa, ens_world, dlog>>
    /\ UNCHANGED <<rq, up, rec, iq, asked, af, nb>>
    /\ UNCHANGED pj
    /\ UNCHANGED rc
    /\ UNCHANGED tg
    /\ UNCHANGED ld

\* self.nft(ctx, category, limit, offset).await with a request to the store
CallNftStore ==
    /\ ~NftsSkipped(nq.platform)
    /\ \E offset \in OffsetArgs \ DOMAIN nq.page :
        LET req == StoreRequest(nq.category, UnwrapOr(nq.limit, NftDefaultLimit),
                                UnwrapOr(offset, NftDefaultOffset)) IN
        \E r \in NftsAnswers(nq.holds, req) :
            nq' = [nq EXCEPT !.requests = @ \cup {req},
                             !.page = @ @@ (offset :>
                                [state |-> IF r.kind = "error" THEN "err" ELSE "ok",
                                 answer |-> r.kind, result |-> r.edges])]
    /\ UNCHANGED <<now, ticks, vertices, edges, qpc, qin, qresp, qpath, qlog, jpc, jinfo,
                   fa, ens_world, dlog>>
    /\ UNCHANGED <<rq, up, rec, iq, asked, af, nb>>
    /\ UNCHANGED pj
    /\ UNCHANGED rc
    /\ UNCHANGED tg
    /\ UNCHANGED ld

NftsNext == CallNftSkipped \/ CallNftStore

NftsSpec == NftsInit /\ [][NftsNext]_vars

\* the limit of the calls, the default applied
LimitOf == UnwrapOr(nq.limit, NftDefaultLimit)

\* the offsets 0, L, 2L, ... of the calls
PageOffsets == {k \in 0..MaxOffset : k % LimitOf = 0}

\* the holds of the identity that are of the categories asked for
Requested ==
    HoldsOf(nq.holds, IF nq.category.given THEN Range(nq.category.list) ELSE {})

NonEthereumNftsEmptyUnasked ==
    nq.platform # PlatformEthereum =>
        /\ nq.requests = {}
        /\ \A o \in DOMAIN nq.page : nq.page[o].state = "ok" /\ nq.page[o].result = <<>>

\* a twitter identity with holds in the store was asked for its NFTs
TwitterHoldsAsked ==
    /\ nq.platform = PlatformTwitter
    /\ nq.holds # <<>>
    /\ DOMAIN nq.page # {}

(***************************************************************************)
(* The projections reverse and ownedBy of an IdentityRecord.               *)
(***************************************************************************)
\* the platforms `reverse` answers for
ReversePlatforms ==
    {"lens", "dotbit", "unstoppabledomains", "space_id", "crossbell", PlatformEthereum,
     PlatformENS, "solana", "SNS", "genome"}

\* the platforms `owned_by` asks the loader for
OwnablePlatforms ==
    {"lens", "dotbit", "unstoppabledomains", "farcaster", "space_id", "crossbell",
     PlatformENS, "SNS", "genome"}

\* the platforms of the records projected
ProjectedPlatforms ==
    ReversePlatforms \cup OwnablePlatforms \cup {PlatformTwitter, "github", "keybase"}

\* IdentityWithSource::reverse: self.reverse as stored
ReverseStored(platform, stored) == stored

\* IdentityRecord::reverse
ReverseOf(platform, stored) ==
    IF platform \notin ReversePlatforms THEN None ELSE stored

\* the test of the older IdentityRecord::owned_by
OwnableLensOnly(platform) == platform = "lens"

\* the test of IdentityRecord::owned_by
Ownable(platform) == platform \in OwnablePlatforms

\* what ctx.data() and loader.try_load(v_id) may give: no loader in the
\* context, Ok(Some(record)), Ok(None), Err of kind NotFound, any other Err
LoaderOutcomes == {"no_loader", "some", "null", "not_found", "failed"}

\* the answer of owned_by on the loader's outcome
OwnedByOf(outcome) ==
    IF outcome = "some" THEN "record"
    ELSE IF outcome \in {"null", "not_found"} THEN "null"
    ELSE "error"

ProjectionInit ==
    /\ now = 0
    /\ ticks = 0
    /\ vertices = EmptyStore
    /\ edges = {}
    /\ qpc = [q \in Queries |-> "idle"]
    /\ qin = [q \in Queries |-> NoInput]
    /\ qresp = [q \in Queries |-> NoResp]
    /\ qpath = [q \in Queries |-> "none"]
    /\ qlog = [q \in Queries |-> <<>>]
    /\ jpc = [q \in Queries |-> "none"]
    /\ jinfo = [q \in Queries |-> NoJob]
    /\ fa = [c \in Callers |-> IdleFetch]
    /\ ens_world = EnsNames
    /\ dlog = NoLog
    /\ rq = NoRequest
    /\ up = NoUpserts
    /\ rec = NoCall
    /\ iq = NoListing
    /\ asked = PlatformStrings \X QueryIdentities
    /\ af = NoAdapterCall
    /\ nb = NoNeighbors
    /\ nq = NoNfts
    /\ \E platform \in ProjectedPlatforms, stored \in ReverseArgs :
            pj = [NoProjection EXCEPT !.platform = platform, !.stored = stored]
    /\ rc = [docs |-> {}, call |-> [c \in 1..MaxConnects |-> NoConnect]]
    /\ tg = NoTheGraphCall
    /\ ld = NoLoad

\* record.reverse().await
CallReverse ==
    /\ pj.reverse = <<>>
    /\ pj' = [pj EXCEPT !.reverse = <<ReverseOf(pj.platform, pj.stored)>>]
    /\ UNCHANGED <<now, ticks, vertices, edges, qpc, qin, qresp, qpath, qlog, jpc, jinfo,
                   fa, ens_world, dlog>>
    /\ UNCHANGED <<rq, up, rec, iq, asked, af, nb, nq>>
    /\ UNCHANGED rc
    /\ UNCHANGED tg
    /\ UNCHANGED ld

\* record.owned_by(ctx).await on a platform the test turns away
CallOwnedBySkipped ==
    /\ pj.owned_by = "uncalled"
    /\ ~Ownable(pj.platform)
    /\ pj' = [pj EXCEPT !.owned_by = "null"]
    /\ UNCHANGED <<now, ticks, vertices, edges, qpc, qin, qresp, qpath, qlog, jpc, jinfo,
                   fa, ens_world, dlog>>
    /\ UNCHANGED <<rq, up, rec, iq, asked, af, nb, nq>>
    /\ UNCHANGED rc
    /\ UNCHANGED tg
    /\ UNCHANGED ld

\* record.owned_by(ctx).await through the batch loader
CallOwnedByLoad ==
    /\ pj.owned_by = "uncalled"
    /\ Ownable(pj.platform)
    /\ \E outcome \in LoaderOutcomes :
            pj' = [pj EXCEPT !.owned_by = OwnedByOf(outcome),
                             !.loader = outcome,
                             !.loads = IF outcome = "no_loader" THEN @ ELSE @ + 1]
    /\ UNCHANGED <<now, ticks, vertices, edges, qpc, qin, qresp, qpath, qlog, jpc, jinfo,
                   fa, ens_world, dlog>>
    /\ UNCHANGED <<rq, up, rec, iq, asked, af, nb, nq>>
    /\ UNCHANGED rc
    /\ UNCHANGED tg
    /\ UNCHANGED ld

ProjectionNext == CallReverse \/ CallOwnedBySkipped \/ CallOwnedByLoad

ProjectionSpec == ProjectionInit /\ [][ProjectionNext]_vars

\* C33: reverse is null on every platform outside {Lens, Dotbit,
\* UnstoppableDomains, SpaceId, Crossbell, Ethereum, ENS, Solana, SNS,
\* Genome}, whatever is stored, and the stored value on a platform of the set.
ReverseNullOutsideDomainSystems ==
    pj.reverse # <<>> =>
        pj.reverse[1] =
            IF pj.platform \in {"lens", "dotbit", "unstoppabledomains", "space_id",
                                "crossbell", "ethereum", "ENS", "solana", "SNS", "genome"}
            THEN pj.stored ELSE None

\* a twitter record stored with reverse = true was projected
TwitterReverseHidden ==
    /\ pj.platform = PlatformTwitter
    /\ pj.stored = "true"
    /\ pj.reverse = <<None>>

TheGraphTargets ==
    {TargetIdentity(PlatformEthereum, Wallet), TargetIdentity(PlatformTwitter, Wallet),
     EnsTarget("a.eth"),
     TargetNFT(ChainEthereum, CategoryERC721, CollectionAddress, "1")}

\* client.query_with_vars(..).await: Err, Ok(None) or Ok(Some(response))
ResponseKinds == {"failed", "no_data", "data"}

\* the store call that fails: 0 is new_db_connection, k the k-th
\* create_identity_to_contract_record, MaxDomains + 1 none
FailPoints == 0..(MaxDomains + 1)

\* fetch_ens_by_eth_wallet on a response with domains
EnsByEthWallet(identity, ds, fail_at, vs, es, t) ==
    IF fail_at = 0 THEN Outcome("err", {}, vs, es)
    ELSE LET ms == MatchingDomains(ds, identity)
             k == IF fail_at <= Len(ms) THEN fail_at - 1 ELSE Len(ms)
             p == PersistDomains(vs, es, ms, k, identity, t)
             w == PersistDomains(EmptyStore, {}, ms, k, identity, 0)
         IN IF fail_at <= Len(ms)
            THEN Written(Outcome("err", {}, p.vertices, p.edges), w)
            ELSE Written(Outcome("ok", {EnsTarget(ms[i].name) : i \in 1..Len(ms)},
                                 p.vertices, p.edges), w)

\* fetch_eth_wallet_by_ens on a response with domains
EthWalletByEns(ens_str, ds, tr, fail_at, vs, es, t) ==
    IF ds[1].resolvedAddress = None THEN Outcome("panic", {}, vs, es)
    ELSE IF tr = "empty" THEN Outcome("panic", {}, vs, es)
    ELSE IF fail_at \in {0, 1} THEN Outcome("err", {}, vs, es)
    ELSE LET from_id == IdentityKey(PlatformEthereum, ds[1].resolvedAddress)
             p == CreateIdentityToContractRecord(vs, es, from_id, ens_str, t)
         IN Written(Outcome("ok", {TargetIdentity(PlatformEthereum, ds[1].resolvedAddress)},
                            p.vertices, p.edges),
                    CreateIdentityToContractRecord(EmptyStore, {}, from_id, ens_str, 0))

\* a fetch that hands the failed request on as an Err
TheGraphCallStrict(target, response, ds, tr, fail_at, vs, es, t) ==
    IF ~TheGraphCanFetch(target) THEN Outcome("ok", {}, vs, es)
    ELSE IF response = "failed" THEN Outcome("err", {}, vs, es)
    ELSE IF response = "no_data" THEN Outcome("panic", {}, vs, es)
    ELSE IF ds = <<>> THEN Outcome("ok", {}, vs, es)
    ELSE IF target.kind = "Identity"
         THEN EnsByEthWallet(target.identity, ds, fail_at, vs, es, t)
         ELSE EthWalletByEns(target.identity, ds, tr, fail_at, vs, es, t)

\* TheGraph::fetch on one response and one store
TheGraphCall(target, response, ds, tr, fail_at, vs, es, t) ==
    IF ~TheGraphCanFetch(target) THEN Outcome("ok", {}, vs, es)
    ELSE IF response = "failed" THEN Outcome("ok", {}, vs, es)
    ELSE IF response = "no_data" THEN Outcome("panic", {}, vs, es)
    ELSE IF ds = <<>> THEN Outcome("ok", {}, vs, es)
    ELSE IF target.kind = "Identity"
         THEN EnsByEthWallet(target.identity, ds, fail_at, vs, es, t)
         ELSE EthWalletByEns(target.identity, ds, tr, fail_at, vs, es, t)

TheGraphInit ==
    /\ now = 0
    /\ ticks = 0
    /\ edges = {}
    /\ qpc = [q \in Queries |-> "idle"]
    /\ qin = [q \in Queries |-> NoInput]
    /\ qresp = [q \in Queries |-> NoResp]
    /\ qpath = [q \in Queries |-> "none"]
    /\ qlog = [q \in Queries |-> <<>>]
    /\ jpc = [q \in Queries |-> "none"]
    /\ jinfo = [q \in Queries |-> NoJob]
    /\ fa = [c \in Callers |-> IdleFetch]
    /\ dlog = NoLog
    /\ rq = NoRequest
    /\ up = NoUpserts
    /\ rec = NoCall
    /\ iq = NoListing
    /\ asked = PlatformStrings \X QueryIdentities
    /\ af = NoAdapterCall
    /\ nb = NoNeighbors
    /\ nq = NoNfts
    /\ pj = NoProjection
    /\ vertices \in {EmptyStore, [k \in {WalletKey} |-> NowRecord(0)]}
    /\ ens_world = EnsNames
    /\ rc = [docs |-> {}, call |-> [c \in 1..MaxConnects |-> NoConnect]]
    /\ tg = NoTheGraphCall
    /\ ld = NoLoad

\* TheGraph::fetch(&target).await returns, or the task aborts
CallTheGraph ==
    /\ tg.pc = "idle"
    /\ \E target \in TheGraphTargets, response \in ResponseKinds,
          ds \in DomainLists(ens_world), tr \in TransferShapes, fail_at \in FailPoints :
            /\ response # "data" => (ds = <<>> /\ tr = "absent")
            /\ LET o == TheGraphCall(target, response, ds, tr, fail_at, vertices, edges, now)
               IN /\ vertices' = o.vertices
                  /\ edges' = o.edges
                  /\ tg' = [pc |-> "done", target |-> target, response |-> response,
                            domains |-> ds, transfers |-> tr, fail_at |-> fail_at,
                            result |-> o.result, next |-> o.next, wrote |-> o.wrote,
                            vertices |-> DOMAIN vertices, edges |-> edges]
    /\ UNCHANGED <<now, ticks, qpc, qin, qresp, qpath, qlog, jpc, jinfo, fa, ens_world, dlog>>
    /\ UNCHANGED <<rq, up, rec, iq, asked, af, nb, nq, pj, rc>>
    /\ UNCHANGED ld

TheGraphNext == CallTheGraph

TheGraphSpec == TheGraphInit /\ [][TheGraphNext]_vars

\* the call met one of the upstream's failures: a target can_fetch refuses,
\* a failed request, or a response without domains
UpstreamGaveNothing ==
    \/ ~TheGraphCanFetch(tg.target)
    \/ tg.response = "failed"
    \/ tg.response = "data" /\ tg.domains = <<>>

\* the number of create_identity_to_contract_record calls the response asks for
WritesAsked ==
    IF tg.target.kind = "Identity"
    THEN Len(MatchingDomains(tg.domains, tg.target.identity))
    ELSE 1

\* C37: TheGraph::fetch never turns an upstream failure into an error: when
\* can_fetch(target) is false, the request fails or the upstream returns no
\* domains, it returns Ok with no follow-up and persists nothing; it returns
\* Err only when the store connection or a store write fails.
UpstreamFailureIsEmptyOk ==
    tg.pc = "done" =>
        /\ UpstreamGaveNothing =>
                /\ tg.result = "ok"
                /\ tg.next = {}
                /\ DOMAIN vertices = tg.vertices
                /\ edges = tg.edges
                /\ tg.wrote = [vertices |-> {}, edges |-> {}]
        /\ tg.result = "err" =>
                /\ ~UpstreamGaveNothing
                /\ tg.fail_at <= WritesAsked

\* a failed request, on a store that would have failed as well
RequestFailedOnEmptyStore ==
    /\ tg.pc = "done"
    /\ tg.response = "failed"
    /\ TheGraphCanFetch(tg.target)
    /\ tg.fail_at = 0
    /\ tg.result = "ok"
    /\ DOMAIN vertices = {}
    /\ edges = {}

\* C38: for every well-formed response, TheGraph's fetch for an ENS target
\* returns Ok or a typed Err and never aborts the task: a first domain
\* without a resolvedAddress, or a transfers list present but empty, is
\* handled as a value, not as a panic.
EnsFetchNeverPanics ==
    (tg.pc = "done" /\ tg.target.kind = "NFT" /\ tg.response = "data") =>
        tg.result \in {"ok", "err"}

(***************************************************************************)
(* IdentityLoadFn::load and the proofs read through the loader.            *)
(***************************************************************************)
\* the vertex ids a batch may ask for
LoaderIds ==
    {IdentityKey(PlatformEthereum, Wallet), IdentityKey(PlatformTwitter, Wallet),
     IdentityKey(PlatformENS, "a.eth")}

\* the IdentityRecord the store holds under a vertex id
LoaderRecord(v_id) == [v_id |-> v_id, platform |-> v_id[2], identity |-> v_id[3]]

\* what the identities_by_ids request may end in: the request fails, the
\* body does not parse, base.error is set, results is None, results is
\* empty, or the first result carries vertices
LoaderAnswers ==
    {"request_failed", "parse_failed", "base_error", "no_results", "empty_results",
     "vertices"}

\* get_identities_by_ids: Err, or the map of the first result's vertices
GetIdentitiesByIds(ids, answer, returned) ==
    IF answer \in {"request_failed", "parse_failed", "base_error"}
    THEN [ok |-> FALSE, map |-> [k \in {} |-> <<>>]]
    ELSE IF answer \in {"no_results", "empty_results"}
    THEN [ok |-> TRUE, map |-> [k \in {} |-> <<>>]]
    ELSE [ok |-> TRUE, map |-> [k \in {r.v_id : r \in returned} |->
                                    <<CHOOSE r \in returned : r.v_id = k>>]]

\* a load that hands the failed request on, as the source's HOLD ON note weighs
IdentityLoadPropagating(ids, answer, returned) ==
    LET records == GetIdentitiesByIds(ids, answer, returned)
    IN [failed |-> ~records.ok, map |-> records.map]

\* IdentityLoadFn::load
IdentityLoad(ids, answer, returned) ==
    LET records == GetIdentitiesByIds(ids, answer, returned)
    IN IF records.ok THEN [failed |-> FALSE, map |-> records.map]
       ELSE [failed |-> FALSE, map |-> [k \in ids |-> <<>>]]

\* the match of ProofRecord::from and ProofRecord::to on the loaded value
LoadedRecord(value) ==
    IF value = <<>> THEN [kind |-> "err", value |-> <<>>]
    ELSE [kind |-> "ok", value |-> value]

LoaderInit ==
    /\ now = 0
    /\ ticks = 0
    /\ edges = {}
    /\ qpc = [q \in Queries |-> "idle"]
    /\ qin = [q \in Queries |-> NoInput]
    /\ qresp = [q \in Queries |-> NoResp]
    /\ qpath = [q \in Queries |-> "none"]
    /\ qlog = [q \in Queries |-> <<>>]
    /\ jpc = [q \in Queries |-> "none"]
    /\ jinfo = [q \in Queries |-> NoJob]
    /\ fa = [c \in Callers |-> IdleFetch]
    /\ dlog = NoLog
    /\ rq = NoRequest
    /\ up = NoUpserts
    /\ rec = NoCall
    /\ iq = NoListing
    /\ asked = PlatformStrings \X QueryIdentities
    /\ af = NoAdapterCall
    /\ nb = NoNeighbors
    /\ nq = NoNfts
    /\ pj = NoProjection
    /\ rc = [docs |-> {}, call |-> [c \in 1..MaxConnects |-> NoConnect]]
    /\ vertices = EmptyStore
    /\ ens_world = {"a.eth"}
    /\ tg = NoTheGraphCall
    /\ ld = NoLoad

\* the loader hands one batch of keys to load
LoadBatch ==
    /\ ld.pc = "idle"
    /\ \E ids \in (SUBSET LoaderIds) \ {{}}, answer \in LoaderAnswers,
          vs \in SUBSET LoaderIds :
            /\ answer # "vertices" => vs = {}
            /\ LET returned == {LoaderRecord(v) : v \in vs}
                   l == IdentityLoad(ids, answer, returned)
               IN ld' = [ld EXCEPT !.pc = "loaded", !.ids = ids, !.answer = answer,
                                   !.returned = returned, !.requests = @ + 1,
                                   !.failed = l.failed, !.map = l.map]
    /\ UNCHANGED <<now, ticks, vertices, edges, qpc, qin, qresp, qpath, qlog, jpc, jinfo,
                   fa, ens_world, dlog>>
    /\ UNCHANGED <<rq, up, rec, iq, asked, af, nb, nq, pj, rc, tg>>

\* ProofRecord::from on a proof whose from_id the load answered
ProofFrom ==
    /\ ld.pc = "loaded"
    /\ ld.from.kind = None
    /\ \E id \in ld.ids \cap DOMAIN ld.map :
            ld' = [ld EXCEPT !.from_id = id, !.from = LoadedRecord(ld.map[id])]
    /\ UNCHANGED <<now, ticks, vertices, edges, qpc, qin, qresp, qpath, qlog, jpc, jinfo,
                   fa, ens_world, dlog>>
    /\ UNCHANGED <<rq, up, rec, iq, asked, af, nb, nq, pj, rc, tg>>

\* ProofRecord::to on a proof whose to_id the load answered
ProofTo ==
    /\ ld.pc = "loaded"
    /\ ld.to.kind = None
    /\ \E id \in ld.ids \cap DOMAIN ld.map :
            ld' = [ld EXCEPT !.to_id = id, !.to = LoadedRecord(ld.map[id])]
    /\ UNCHANGED <<now, ticks, vertices, edges, qpc, qin, qresp, qpath, qlog, jpc, jinfo,
                   fa, ens_world, dlog>>
    /\ UNCHANGED <<rq, up, rec, iq, asked, af, nb, nq, pj, rc, tg>>

LoaderNext == LoadBatch \/ ProofFrom \/ ProofTo

LoaderSpec == LoaderInit /\ [][LoaderNext]_vars

\* the identities_by_ids request of the batch failed
LoadRequestFailed == ld.answer \in {"request_failed", "parse_failed", "base_error"}

\* C39: IdentityLoadFn::load never fails and answers a whole batch with one
\* identities_by_ids request: when the request fails every requested id maps
\* to None, when it succeeds every vertex returned maps its v_id to
\* Some(record); ProofRecord::from and ProofRecord::to return an error for
\* an id whose loaded value is None and the record otherwise.
LoadAnswersWholeBatch ==
    ld.pc = "loaded" =>
        /\ ~ld.failed
        /\ ld.requests = 1
        /\ LoadRequestFailed =>
                /\ DOMAIN ld.map = ld.ids
                /\ \A id \in ld.ids : ld.map[id] = <<>>
        /\ ~LoadRequestFailed =>
                \A r \in ld.returned : r.v_id \in DOMAIN ld.map /\ ld.map[r.v_id] = <<r>>
        /\ ld.from.kind # None =>
                IF ld.map[ld.from_id] = <<>> THEN ld.from.kind = "err"
                ELSE ld.from = [kind |-> "ok", value |-> <<LoaderRecord(ld.from_id)>>]
        /\ ld.to.kind # None =>
                IF ld.map[ld.to_id] = <<>> THEN ld.to.kind = "err"
                ELSE ld.to = [kind |-> "ok", value |-> <<LoaderRecord(ld.to_id)>>]

\* a failed batch of two ids, and a proof between them
FailedBatchProofErrs ==
    /\ ld.pc = "loaded"
    /\ LoadRequestFailed
    /\ Cardinality(ld.ids) = 2
    /\ ld.from.kind = "err"
    /\ ld.to.kind = "err"
    /\ ld.from_id # ld.to_id

(***************************************************************************)
(* Resolve::connect called by several tasks at once.                       *)
(***************************************************************************)
\* the keys (_from, _to, system, name) the calls connect
ResolveKeys ==
    {<<ContractKey(ChainEthereum, EnsContractAddress), WalletKey, "ens", n>> : n \in EnsNames}

\* a Resolve edge document: the collection gives every document its own _key
ResolveDoc(key, n) == [key |-> key, doc |-> n]

\* the documents the filter of connect matches
Matching(docs, key) == {d \in docs : d.key = key}

\* DatabaseRecord::link: a new document is created
Link(docs, key) == docs \cup {ResolveDoc(key, Cardinality(docs) + 1)}

ConnectInit ==
    /\ now = 0
    /\ ticks = 0
    /\ vertices = EmptyStore
    /\ edges = {}
    /\ qpc = [q \in Queries |-> "idle"]
    /\ qin = [q \in Queries |-> NoInput]
    /\ qresp = [q \in Queries |-> NoResp]
    /\ qpath = [q \in Queries |-> "none"]
    /\ qlog = [q \in Queries |-> <<>>]
    /\ jpc = [q \in Queries |-> "none"]
    /\ jinfo = [q \in Queries |-> NoJob]
    /\ fa = [c \in Callers |-> IdleFetch]
    /\ ens_world = EnsNames
    /\ dlog = NoLog
    /\ rq = NoRequest
    /\ up = NoUpserts
    /\ rec = NoCall
    /\ iq = NoListing
    /\ asked = PlatformStrings \X QueryIdentities
    /\ af = NoAdapterCall
    /\ nb = NoNeighbors
    /\ nq = NoNfts
    /\ pj = NoProjection
    /\ \E docs \in {{}} \cup {{ResolveDoc(k, 1)} : k \in ResolveKeys} :
            rc = [docs |-> docs, call |-> [c \in 1..MaxConnects |-> NoConnect]]
    /\ tg = NoTheGraphCall
    /\ ld = NoLoad

\* query.call(db).await: the filter's result, or the store's error
ConnectQuery(c) ==
    /\ rc.call[c].pc = "idle"
    /\ \E key \in ResolveKeys, ok \in BOOLEAN :
            rc' = [rc EXCEPT !.call[c] =
                        IF ok THEN [NoConnect EXCEPT !.pc = "queried", !.key = key,
                                                     !.found = Matching(rc.docs, key)]
                        ELSE [NoConnect EXCEPT !.pc = "err", !.key = key]]
    /\ UNCHANGED <<now, ticks, vertices, edges, qpc, qin, qresp, qpath, qlog, jpc, jinfo,
                   fa, ens_world, dlog>>
    /\ UNCHANGED <<rq, up, rec, iq, asked, af, nb, nq, pj>>
    /\ UNCHANGED tg
    /\ UNCHANGED ld

\* result.len() == 0: DatabaseRecord::link(from, to, db, self.clone()).await?
ConnectLink(c) ==
    /\ rc.call[c].pc = "queried"
    /\ rc.call[c].found = {}
    /\ \E ok \in BOOLEAN :
            rc' = IF ok
                  THEN [rc EXCEPT !.docs = Link(rc.docs, rc.call[c].key),
                                  !.call[c].pc = "done",
                                  !.call[c].returned =
                                      <<ResolveDoc(rc.call[c].key, Cardinality(rc.docs) + 1)>>]
                  ELSE [rc EXCEPT !.call[c].pc = "err"]
    /\ UNCHANGED <<now, ticks, vertices, edges, qpc, qin, qresp, qpath, qlog, jpc, jinfo,
                   fa, ens_world, dlog>>
    /\ UNCHANGED <<rq, up, rec, iq, asked, af, nb, nq, pj>>
    /\ UNCHANGED tg
    /\ UNCHANGED ld

\* else: Ok(result.first().unwrap().clone().into())
ConnectReturn(c) ==
    /\ rc.call[c].pc = "queried"
    /\ rc.call[c].found # {}
    /\ \E d \in rc.call[c].found :
            rc' = [rc EXCEPT !.call[c].pc = "done", !.call[c].returned = <<d>>]
    /\ UNCHANGED <<now, ticks, vertices, edges, qpc, qin, qresp, qpath, qlog, jpc, jinfo,
                   fa, ens_world, dlog>>
    /\ UNCHANGED <<rq, up, rec, iq, asked, af, nb, nq, pj>>
    /\ UNCHANGED tg
    /\ UNCHANGED ld

ConnectNext ==
    \E c \in 1..MaxConnects : ConnectQuery(c) \/ ConnectLink(c) \/ ConnectReturn(c)

ConnectSpec == ConnectInit /\ [][ConnectNext]_vars

\* C35: after any interleaving of Resolve::connect calls, two of them with
\* the same key at once included, at most one Resolve edge exists per
\* (from, to, system, name); a call that finds the key present returns the
\* edge found and links none.
AtMostOneResolvePerKey ==
    /\ \A d1, d2 \in rc.docs : d1.key = d2.key => d1 = d2
    /\ \A c \in 1..MaxConnects :
            (rc.call[c].pc = "done" /\ rc.call[c].found # {}) =>
                rc.call[c].returned[1] \in rc.call[c].found

(***************************************************************************)
(* The query identities(platforms, identity) of the older GraphQL API.     *)
(***************************************************************************)
\* the platform lists a client sends
PlatformLists ==
    {<<PlatformEthereum>>, <<PlatformTwitter>>, <<PlatformEthereum, PlatformTwitter>>,
     <<PlatformTwitter, PlatformEthereum>>}

\* Identity::find_by_platforms_identity: the platforms of the list that have
\* a record of the identity
FindByPlatformsIdentity(vs, platforms, identity) ==
    {p \in Range(platforms) : IdentityKey(p, identity) \in DOMAIN vs}

ListingInit ==
    /\ now \in {0, OutdatedInSecs + 1}
    /\ ticks = 0
    /\ vertices \in {[k \in K |-> NowRecord(0)] :
                        K \in SUBSET {WalletKey, IdentityKey(PlatformTwitter, Wallet)}}
    /\ edges = {}
    /\ qpc = [q \in Queries |-> "idle"]
    /\ qin = [q \in Queries |-> NoInput]
    /\ qresp = [q \in Queries |-> NoResp]
    /\ qpath = [q \in Queries |-> "none"]
    /\ qlog = [q \in Queries |-> <<>>]
    /\ jpc = [q \in Queries |-> "none"]
    /\ jinfo = [q \in Queries |-> NoJob]
    /\ fa = [c \in Callers |-> IdleFetch]
    /\ ens_world = EnsNames
    /\ dlog = NoLog
    /\ rq = NoRequest
    /\ up = NoUpserts
    /\ rec = NoCall
    /\ iq = NoListing
    /\ asked = PlatformStrings \X QueryIdentities
    /\ af = NoAdapterCall
    /\ nb = NoNeighbors
    /\ nq = NoNfts
    /\ pj = NoProjection
    /\ rc = [docs |-> {}, call |-> [c \in 1..MaxConnects |-> NoConnect]]
    /\ tg = NoTheGraphCall
    /\ ld = NoLoad

\* vec_string_to_vec_platform(..)? or the first lookup's `?` returns the error
ListError ==
    /\ iq.pc = "idle"
    /\ \E ps \in PlatformLists :
        iq' = [iq EXCEPT !.pc = "done", !.platforms = ps, !.path = "error",
                         !.resp = "error"]
    /\ UNCHANGED <<now, ticks, vertices, edges, qpc, qin, qresp, qpath, qlog, jpc, jinfo,
                   fa, ens_world, dlog, rq, up, rec>>
    /\ UNCHANGED asked
    /\ UNCHANGED af
    /\ UNCHANGED nb
    /\ UNCHANGED nq
    /\ UNCHANGED pj
    /\ UNCHANGED rc
    /\ UNCHANGED tg
    /\ UNCHANGED ld

\* record.len() == 0: the loop starts with fetch_all of the first platform
ListCold ==
    /\ iq.pc = "idle"
    /\ \E ps \in PlatformLists :
        /\ FindByPlatformsIdentity(vertices, ps, Wallet) = {}
        /\ iq' = [iq EXCEPT !.pc = "fetching", !.platforms = ps, !.path = "cold",
                            !.todo = ps]
        /\ fa' = [fa EXCEPT ![Lister] = NewFetchAll({TargetIdentity(ps[1], Wallet)},
                                                    QueryDepth)]
    /\ UNCHANGED <<now, ticks, vertices, edges, qpc, qin, qresp, qpath, qlog, jpc, jinfo,
                   ens_world, dlog, rq, up, rec>>
    /\ UNCHANGED asked
    /\ UNCHANGED af
    /\ UNCHANGED nb
    /\ UNCHANGED nq
    /\ UNCHANGED pj
    /\ UNCHANGED rc
    /\ UNCHANGED tg
    /\ UNCHANGED ld

\* one adapter fetch of the awaited fetch_all completes
ListFetch ==
    /\ iq.pc = "fetching"
    /\ fa[Lister].status = "running"
    /\ \E r \in EngineSteps(fa[Lister], vertices, edges, now, ens_world) :
        /\ fa' = [fa EXCEPT ![Lister] = r.f]
        /\ vertices' = r.vertices
        /\ edges' = r.edges
        /\ iq' = IF r.f.status = "panicked" THEN [iq EXCEPT !.pc = "panicked"] ELSE iq
    /\ UNCHANGED <<now, ticks, qpc, qin, qresp, qpath, qlog, jpc, jinfo, ens_world, dlog,
                   rq, up, rec>>
    /\ UNCHANGED asked
    /\ UNCHANGED af
    /\ UNCHANGED nb
    /\ UNCHANGED nq
    /\ UNCHANGED pj
    /\ UNCHANGED rc
    /\ UNCHANGED tg
    /\ UNCHANGED ld

\* `fetch_all(target).await?` returns: Err ends the request, Ok goes on with
\* the next platform of the loop, or with the second lookup after the last
ListAwaited ==
    /\ iq.pc = "fetching"
    /\ fa[Lister].status \in {"ok", "err"}
    /\ IF fa[Lister].status = "err"
       THEN /\ iq' = [iq EXCEPT !.pc = "done", !.resp = "error"]
            /\ fa' = fa
       ELSE IF Len(iq.todo) > 1
       THEN /\ iq' = [iq EXCEPT !.todo = Tail(@), !.fetched = @ \cup {iq.todo[1]}]
            /\ fa' = [fa EXCEPT ![Lister] =
                        NewFetchAll({TargetIdentity(iq.todo[2], Wallet)}, QueryDepth)]
       ELSE /\ iq' = [iq EXCEPT !.todo = <<>>, !.fetched = @ \cup {iq.todo[1]},
                                !.pc = "lookup"]
            /\ fa' = fa
    /\ UNCHANGED <<now, ticks, vertices, edges, qpc, qin, qresp, qpath, qlog, jpc, jinfo,
                   ens_world, dlog, rq, up, rec>>
    /\ UNCHANGED asked
    /\ UNCHANGED af
    /\ UNCHANGED nb
    /\ UNCHANGED nq
    /\ UNCHANGED pj
    /\ UNCHANGED rc
    /\ UNCHANGED tg
    /\ UNCHANGED ld

\* the second find_by_platforms_identity is the response
ListLookup2 ==
    /\ iq.pc = "lookup"
    /\ \E store_ok \in BOOLEAN :
        iq' = IF store_ok
              THEN [iq EXCEPT !.pc = "done", !.resp = "list",
                              !.listed = FindByPlatformsIdentity(vertices, iq.platforms,
                                                                 Wallet)]
              ELSE [iq EXCEPT !.pc = "done", !.resp = "error"]
    /\ UNCHANGED <<now, ticks, vertices, edges, qpc, qin, qresp, qpath, qlog, jpc, jinfo,
                   fa, ens_world, dlog, rq, up, rec>>
    /\ UNCHANGED asked
    /\ UNCHANGED af
    /\ UNCHANGED nb
    /\ UNCHANGED nq
    /\ UNCHANGED pj
    /\ UNCHANGED rc
    /\ UNCHANGED tg
    /\ UNCHANGED ld

\* some record was found: fetch_all is spawned for every outdated one, and
\* the records found are the response
ListWarm ==
    /\ iq.pc = "idle"
    /\ \E ps \in PlatformLists :
        LET record == FindByPlatformsIdentity(vertices, ps, Wallet)
            outdated == {p \in record :
                            IsOutdated(vertices[IdentityKey(p, Wallet)].updated_at, now)}
        IN /\ record # {}
           /\ iq' = [iq EXCEPT !.pc = "done", !.platforms = ps, !.path = "warm",
                               !.record = record, !.spawned = outdated,
                               !.resp = "list", !.listed = record]
           /\ fa' = [c \in Callers |->
                        IF \E p \in outdated : c = ListerTask(p)
                        THEN NewFetchAll({TargetIdentity(
                                 CHOOSE p \in outdated : c = ListerTask(p), Wallet)},
                                 QueryDepth)
                        ELSE fa[c]]
    /\ UNCHANGED <<now, ticks, vertices, edges, qpc, qin, qresp, qpath, qlog, jpc, jinfo,
                   ens_world, dlog, rq, up, rec>>
    /\ UNCHANGED asked
    /\ UNCHANGED af
    /\ UNCHANGED nb
    /\ UNCHANGED nq
    /\ UNCHANGED pj
    /\ UNCHANGED rc
    /\ UNCHANGED tg
    /\ UNCHANGED ld

\* one adapter fetch of a spawned fetch_all completes
ListTaskFetch ==
    /\ \E p \in iq.spawned :
        /\ fa[ListerTask(p)].status = "running"
        /\ \E r \in EngineSteps(fa[ListerTask(p)], vertices, edges, now, ens_world) :
            /\ fa' = [fa EXCEPT ![ListerTask(p)] = r.f]
            /\ vertices' = r.vertices
            /\ edges' = r.edges
    /\ UNCHANGED <<now, ticks, qpc, qin, qresp, qpath, qlog, jpc, jinfo, ens_world, dlog,
                   rq, up, rec, iq>>
    /\ UNCHANGED asked
    /\ UNCHANGED af
    /\ UNCHANGED nb
    /\ UNCHANGED nq
    /\ UNCHANGED pj
    /\ UNCHANGED rc
    /\ UNCHANGED tg
    /\ UNCHANGED ld

ListingNext ==
    \/ ListError \/ ListCold \/ ListFetch \/ ListAwaited \/ ListLookup2
    \/ ListWarm \/ ListTaskFetch

ListingSpec == ListingInit /\ [][ListingNext]_vars

(***************************************************************************)
(* The resolver query ens(name) of the older GraphQL API.                  *)
(***************************************************************************)
\* Resolve::find_by_ens_name: the Resolve edges of the name joined with the
\* Holds of the name; with no such pair the Hold alone, carrying its own
\* updated_at; else None.  Each result is the first row of some answer.
FindByEnsName(es, name) ==
    LET rs == {e \in es : e.kind = "Resolve" /\ e.disc = name
                          /\ e.from[1] = "Identities" /\ e.to[1] = "Contracts"}
        hs == {e \in es : e.kind = "Hold" /\ e.disc = name} IN
    IF rs # {} /\ hs # {}
    THEN {[kind |-> "some", name |-> name, updated_at |-> r.updated_at] : r \in rs}
    ELSE IF hs # {}
         THEN {[kind |-> "some", name |-> name, updated_at |-> h.updated_at] : h \in hs}
         ELSE {NoResolve}

\* the older fetch_all(target), with the depth of the newer one
ResolveFetchAll(name) == NewFetchAll({EnsTarget(name)}, QueryDepth)

\* the Hold and the Resolve of a name the wallet owns
HoldOf(name) ==
    EdgeOf("Hold", WalletKey, ContractKey(ChainEthereum, EnsContractAddress), "the_graph", name)

ResolveOf(name) ==
    EdgeOf("Resolve", WalletKey, ContractKey(ChainEthereum, EnsContractAddress),
           "the_graph", name)

\* the stores the resolver is asked on: empty, or "a.eth" held, or held and resolved
ResolveStores ==
    {{}, {Stamped(HoldOf("a.eth"), 0)},
     {Stamped(HoldOf("a.eth"), 0), Stamped(ResolveOf("a.eth"), 0)}}

ResolveInit ==
    /\ now \in {0, ResolveOutdatedInSecs + 1}
    /\ ticks = 0
    /\ vertices = EmptyStore
    /\ edges \in ResolveStores
    /\ qpc = [q \in Queries |-> "idle"]
    /\ qin = [q \in Queries |-> NoInput]
    /\ qresp = [q \in Queries |-> NoResp]
    /\ qpath = [q \in Queries |-> "none"]
    /\ qlog = [q \in Queries |-> <<>>]
    /\ jpc = [q \in Queries |-> "none"]
    /\ jinfo = [q \in Queries |-> NoJob]
    /\ fa = [c \in Callers |-> IdleFetch]
    /\ ens_world = EnsNames
    /\ dlog = NoLog
    /\ rq = NoRequest
    /\ up = NoUpserts
    /\ rec = NoCall
    /\ iq = NoListing
    /\ asked = PlatformStrings \X QueryIdentities
    /\ af = NoAdapterCall
    /\ nb = NoNeighbors
    /\ nq = NoNfts
    /\ pj = NoProjection
    /\ rc = [docs |-> {}, call |-> [c \in 1..MaxConnects |-> NoConnect]]
    /\ tg = NoTheGraphCall
    /\ ld = NoLoad

\* the first find_by_ens_name(..).await? fails: the error is the response
EnsStoreError ==
    /\ rq.pc = "idle"
    /\ \E name \in EnsNames :
        rq' = [rq EXCEPT !.pc = "done", !.name = name, !.path = "store_error",
                         !.found = ErrResolve, !.lookups = 1, !.resp = ErrResolve]
    /\ UNCHANGED <<now, ticks, vertices, edges, qpc, qin, qresp, qpath, qlog, jpc, jinfo,
                   fa, ens_world, dlog>>
    /\ UNCHANGED up
    /\ UNCHANGED rec
    /\ UNCHANGED iq
    /\ UNCHANGED asked
    /\ UNCHANGED af
    /\ UNCHANGED nb
    /\ UNCHANGED nq
    /\ UNCHANGED pj
    /\ UNCHANGED rc
    /\ UNCHANGED tg
    /\ UNCHANGED ld

\* None => fetch_all(target).await starts
EnsCold ==
    /\ rq.pc = "idle"
    /\ \E name \in EnsNames :
        /\ NoResolve \in FindByEnsName(edges, name)
        /\ rq' = [rq EXCEPT !.pc = "fetching", !.name = name, !.path = "cold",
                            !.lookups = 1]
        /\ fa' = [fa EXCEPT ![Resolver] = ResolveFetchAll(name)]
    /\ UNCHANGED <<now, ticks, vertices, edges, qpc, qin, qresp, qpath, qlog, jpc, jinfo,
                   ens_world, dlog>>
    /\ UNCHANGED up
    /\ UNCHANGED rec
    /\ UNCHANGED iq
    /\ UNCHANGED asked
    /\ UNCHANGED af
    /\ UNCHANGED nb
    /\ UNCHANGED nq
    /\ UNCHANGED pj
    /\ UNCHANGED rc
    /\ UNCHANGED tg
    /\ UNCHANGED ld

\* what `fetch_all(target).await?` leaves of the request once fetch_all returned
AfterAwait(r, status) ==
    CASE status = "err" ->
            [r EXCEPT !.pc = "done", !.fetch_result = "err", !.resp = ErrResolve]
      [] status = "ok" -> [r EXCEPT !.pc = "lookup", !.fetch_result = "ok"]
      [] status = "panicked" -> [r EXCEPT !.pc = "panicked", !.fetch_result = "panicked"]
      [] OTHER -> r

\* one adapter fetch of the awaited fetch_all completes
EnsFetch ==
    /\ rq.pc = "fetching"
    /\ fa[Resolver].status = "running"
    /\ \E r \in EngineSteps(fa[Resolver], vertices, edges, now, ens_world) :
        /\ fa' = [fa EXCEPT ![Resolver] = r.f]
        /\ vertices' = r.vertices
        /\ edges' = r.edges
        /\ rq' = AfterAwait(rq, r.f.status)
    /\ UNCHANGED <<now, ticks, qpc, qin, qresp, qpath, qlog, jpc, jinfo, ens_world, dlog>>
    /\ UNCHANGED up
    /\ UNCHANGED rec
    /\ UNCHANGED iq
    /\ UNCHANGED asked
    /\ UNCHANGED af
    /\ UNCHANGED nb
    /\ UNCHANGED nq
    /\ UNCHANGED pj
    /\ UNCHANGED rc
    /\ UNCHANGED tg
    /\ UNCHANGED ld

\* Resolve::find_by_ens_name(&pool, &name).await is the response
EnsLookup2 ==
    /\ rq.pc = "lookup"
    /\ \E second \in FindByEnsName(edges, rq.name) \cup {ErrResolve} :
        rq' = [rq EXCEPT !.pc = "done", !.lookups = 2, !.resp = second]
    /\ UNCHANGED <<now, ticks, vertices, edges, qpc, qin, qresp, qpath, qlog, jpc, jinfo,
                   fa, ens_world, dlog>>
    /\ UNCHANGED up
    /\ UNCHANGED rec
    /\ UNCHANGED iq
    /\ UNCHANGED asked
    /\ UNCHANGED af
    /\ UNCHANGED nb
    /\ UNCHANGED nq
    /\ UNCHANGED pj
    /\ UNCHANGED rc
    /\ UNCHANGED tg
    /\ UNCHANGED ld

\* Some(resolve), outdated: tokio::spawn(fetch_all(target)), then Ok(Some(resolve))
EnsStale ==
    /\ rq.pc = "idle"
    /\ \E name \in EnsNames :
        \E found \in FindByEnsName(edges, name) :
            /\ found.kind = "some"
            /\ ResolveIsOutdated(found.updated_at, now)
            /\ rq' = [rq EXCEPT !.pc = "done", !.name = name, !.path = "stale",
                                !.found = found, !.lookups = 1, !.resp = found,
                                !.task = "fetch", !.at = now]
            /\ fa' = [fa EXCEPT ![Resolver] = ResolveFetchAll(name)]
    /\ UNCHANGED <<now, ticks, vertices, edges, qpc, qin, qresp, qpath, qlog, jpc, jinfo,
                   ens_world, dlog>>
    /\ UNCHANGED up
    /\ UNCHANGED rec
    /\ UNCHANGED iq
    /\ UNCHANGED asked
    /\ UNCHANGED af
    /\ UNCHANGED nb
    /\ UNCHANGED nq
    /\ UNCHANGED pj
    /\ UNCHANGED rc
    /\ UNCHANGED tg
    /\ UNCHANGED ld

\* Some(resolve), not outdated: Ok(Some(resolve))
EnsFresh ==
    /\ rq.pc = "idle"
    /\ \E name \in EnsNames :
        \E found \in FindByEnsName(edges, name) :
            /\ found.kind = "some"
            /\ ~ResolveIsOutdated(found.updated_at, now)
            /\ rq' = [rq EXCEPT !.pc = "done", !.name = name, !.path = "fresh",
                                !.found = found, !.lookups = 1, !.resp = found]
    /\ UNCHANGED <<now, ticks, vertices, edges, qpc, qin, qresp, qpath, qlog, jpc, jinfo,
                   fa, ens_world, dlog>>
    /\ UNCHANGED up
    /\ UNCHANGED rec
    /\ UNCHANGED iq
    /\ UNCHANGED asked
    /\ UNCHANGED af
    /\ UNCHANGED nb
    /\ UNCHANGED nq
    /\ UNCHANGED pj
    /\ UNCHANGED rc
    /\ UNCHANGED tg
    /\ UNCHANGED ld

\* one adapter fetch of the spawned fetch_all completes
EnsTaskFetch ==
    /\ rq.task = "fetch"
    /\ fa[Resolver].status = "running"
    /\ \E r \in EngineSteps(fa[Resolver], vertices, edges, now, ens_world) :
        /\ fa' = [fa EXCEPT ![Resolver] = r.f]
        /\ vertices' = r.vertices
        /\ edges' = r.edges
        /\ rq' = [rq EXCEPT !.task = IF r.f.status = "running" THEN @ ELSE r.f.status]
    /\ UNCHANGED <<now, ticks, qpc, qin, qresp, qpath, qlog, jpc, jinfo, ens_world, dlog>>
    /\ UNCHANGED up
    /\ UNCHANGED rec
    /\ UNCHANGED iq
    /\ UNCHANGED asked
    /\ UNCHANGED af
    /\ UNCHANGED nb
    /\ UNCHANGED nq
    /\ UNCHANGED pj
    /\ UNCHANGED rc
    /\ UNCHANGED tg
    /\ UNCHANGED ld

\* time passes while fetches are in flight
ResolveTick ==
    /\ ticks < MaxTicks
    /\ fa[Resolver].status = "running"
    /\ now' = now + 1
    /\ ticks' = ticks + 1
    /\ UNCHANGED <<vertices, edges, qpc, qin, qresp, qpath, qlog, jpc, jinfo, fa,
                   ens_world, dlog, rq, up>>
    /\ UNCHANGED rec
    /\ UNCHANGED iq
    /\ UNCHANGED asked
    /\ UNCHANGED af
    /\ UNCHANGED nb
    /\ UNCHANGED nq
    /\ UNCHANGED pj
    /\ UNCHANGED rc
    /\ UNCHANGED tg
    /\ UNCHANGED ld

ResolveNext ==
    \/ EnsStoreError \/ EnsCold \/ EnsFetch \/ EnsLookup2
    \/ EnsStale \/ EnsFresh \/ EnsTaskFetch \/ ResolveTick

ResolveSpec == ResolveInit /\ [][ResolveNext]_vars

(***************************************************************************)
(* Fair scheduling: a spawned task that can take a step eventually takes   *)
(* it, and every adapter fetch in flight eventually returns.               *)
(***************************************************************************)
\* the service an hour after the wallet's record was written; the clock moves
\* with the tasks' sleeps only
StaleInit ==
    /\ now = OutdatedInSecs + 1
    /\ ticks = 0
    /\ vertices = [k \in {WalletKey} |-> NowRecord(0)]
    /\ edges = {}
    /\ qpc = [q \in Queries |-> "idle"]
    /\ qin = [q \in Queries |-> NoInput]
    /\ qresp = [q \in Queries |-> NoResp]
    /\ qpath = [q \in Queries |-> "none"]
    /\ qlog = [q \in Queries |-> <<>>]
    /\ jpc = [q \in Queries |-> "none"]
    /\ jinfo = [q \in Queries |-> NoJob]
    /\ fa = [c \in Callers |-> IdleFetch]
    /\ ens_world = {"a.eth"}
    /\ dlog = NoLog
    /\ rq = NoRequest
    /\ up = NoUpserts
    /\ rec = NoCall
    /\ iq = NoListing
    /\ asked = PlatformStrings \X QueryIdentities
    /\ af = NoAdapterCall
    /\ nb = NoNeighbors
    /\ nq = NoNfts
    /\ pj = NoProjection
    /\ rc = [docs |-> {}, call |-> [c \in 1..MaxConnects |-> NoConnect]]
    /\ tg = NoTheGraphCall
    /\ ld = NoLoad

FairSpec ==
    /\ StaleInit
    /\ [][Serve]_vars
    /\ \A q \in Queries : WF_vars(JobWake(q)) /\ WF_vars(JobDelete(q)) /\ WF_vars(JobFetch(q))

\* the direct invocation with the clock standing still
FetchRun == DirectStart \/ DirectFetch

FairFetchSpec == FetchInit /\ [][FetchRun]_vars /\ WF_vars(DirectFetch)

(***************************************************************************)
(* Properties.                                                             *)
(***************************************************************************)
SameRecord(resp, found) ==
    /\ resp.kind = (IF found.kind = "some" THEN "record"
                    ELSE IF found.kind = "none" THEN "null" ELSE "error")
    /\ resp.v_id = found.v_id
    /\ resp.updated_at = found.updated_at

\* C1: on the cold path the store serves exactly two lookups to the request, the
\* first answering None and the second served only once fetch_all has returned,
\* and the response is the answer of the second lookup (a record, null, or the
\* store's error).
ColdFetchIsSynchronous ==
    \A q \in Queries :
        /\ (qpath[q] = "cold" /\ qpc[q] = "fetching") => Len(qlog[q]) = 1
        /\ (qpath[q] = "cold" /\ qpc[q] = "done") =>
            /\ Len(qlog[q]) = 2
            /\ qlog[q][1].res.kind = "none"
            /\ qlog[q][1].fa = "idle"
            /\ qlog[q][2].fa \in {"ok", "err"}
            /\ SameRecord(qresp[q], qlog[q][2].res)

\* a cold request answered with the record its own fetch_all persisted
ColdFetchReturnsRecord ==
    \E q \in Queries :
        /\ qpath[q] = "cold" /\ qpc[q] = "done"
        /\ qresp[q].kind = "record"

\* C2: on the stale path the response is the record the first lookup read,
\* whatever the store holds by then, and the return is never blocked by the
\* spawned task: it is possible in every state after the spawn.
StaleServesImmediately ==
    \A q \in Queries :
        /\ (qpath[q] = "stale" /\ qpc[q] = "done") =>
            /\ Len(qlog[q]) = 1
            /\ qlog[q][1].res.kind = "some"
            /\ SameRecord(qresp[q], qlog[q][1].res)
        /\ qpc[q] = "returning" => ENABLED QueryReturn(q)

\* a stale request answered while its background task has not slept yet
StaleAnsweredBeforeTask ==
    \E q \in Queries :
        /\ qpath[q] = "stale" /\ qpc[q] = "done" /\ jpc[q] = "sleep"
        /\ qresp[q].status = {"Cached", "Outdated"}

FreshHitOnlyReads ==
    /\ [](\A q \in Queries :
            (/\ Len(qlog[q]) >= 1
             /\ qlog[q][1].res.kind = "some"
             /\ ~(qlog[q][1].res.updated_at + OutdatedInSecs < qlog[q][1].at)) =>
                /\ qpath[q] = "fresh" /\ qpc[q] = "done"
                /\ Len(qlog[q]) = 1
                /\ SameRecord(qresp[q], qlog[q][1].res)
                /\ qresp[q].status = {"Cached"}
                /\ jpc[q] = "none" /\ jinfo[q] = NoJob
                /\ fa[q] = IdleFetch)
    /\ [][\A q \in Queries :
            (qpc[q] = "idle" /\ qpath'[q] = "fresh") =>
                UNCHANGED <<vertices, edges, jpc, jinfo, fa>>]_vars

\* a request served from a record younger than the hour
FreshHitServed ==
    \E q \in Queries :
        /\ qpath[q] = "fresh" /\ qpc[q] = "done"
        /\ qresp[q].kind = "record"
        /\ qresp[q].status = {"Cached"}

Finished == fa[Direct].status \in {"ok", "err"}

\* C4: within one fetch_all invocation no (canonical target, adapter) is handed
\* to a fetch twice, neither within a layer nor across layers, whichever fetches
\* returned the target as a follow-up.
DispatchedAtMostOnce ==
    /\ ~dlog.redispatched
    /\ \A d, e \in dlog.dispatched : (d[1] = e[1] /\ d[2] = e[2]) => d[3] = e[3]
    /\ \A d \in dlog.dispatched :
        d[3] = 0 <=> d[1] \in {Canonical(x) : x \in dlog.seeds}

\* two fetches of this invocation returned a target already visited, one of them
\* the seed
VisitedFollowUpsReturned ==
    /\ Finished
    /\ \E x, y \in dlog.ok_next :
        /\ x # y
        /\ \E d \in dlog.dispatched : d[1] = Canonical(x[1]) /\ d[3] <= x[2]
        /\ \E d \in dlog.dispatched : d[1] = Canonical(y[1]) /\ d[3] <= y[2]
        /\ Canonical(x[1]) \in {Canonical(s) : s \in dlog.seeds}

\* C5: an invocation of fetch_all whose adapter fetches all return comes to its
\* end, whatever follow-ups the fetches return.
FetchAllReturns ==
    (fa[Direct].status = "running") ~> (fa[Direct].status \in {"ok", "err", "panicked"})

\* fetch_all returned Ok after the wallet's names led back to the wallet
CycleClosedAndReturned ==
    /\ fa[Direct].status = "ok"
    /\ \E x, y \in dlog.ok_next :
        /\ x[1].kind = "NFT" /\ y[1].kind = "Identity"
        /\ x[2] + 1 = y[2]
        /\ Canonical(y[1]) \in {Canonical(s) : s \in dlog.seeds}

\* C6: fetch_all(seeds, max_depth) hands no target of a layer numbered max_depth
\* or more to an adapter.
LayersBelowMaxDepth ==
    /\ \A d \in dlog.dispatched : d[3] < dlog.max_depth
    /\ fa[Direct].status = "running" => fa[Direct].layer < fa[Direct].max_depth

\* the depth ran out: a follow-up never visited was left unfetched
DepthCutOff ==
    /\ Finished
    /\ dlog.max_depth = 2
    /\ \E d \in dlog.dispatched : d[3] = 1
    /\ \E x \in dlog.ok_next :
        /\ \E a \in Adapters : CanFetch(a, x[1])
        /\ \A d \in dlog.dispatched : d[1] # Canonical(x[1])

\* C7: when fetch_all returns, every fetch it dispatched has run to its end, what
\* the successful fetches persisted is in the store, their follow-ups were
\* dispatched (depth permitting), and the result is Err exactly when some
\* adapter fetch failed.
FailuresSpareSiblings ==
    Finished =>
        /\ dlog.ran = dlog.dispatched
        /\ (fa[Direct].status = "err") <=> dlog.any_fail
        /\ dlog.ok_writes \subseteq DOMAIN vertices
        /\ \A x \in dlog.ok_next :
            x[2] + 1 < dlog.max_depth =>
                \A a \in {b \in Adapters : CanFetch(b, x[1])} :
                    \E d \in dlog.dispatched :
                        d[1] = Canonical(x[1]) /\ d[2] = a /\ d[3] <= x[2] + 1

\* fetch_all returned Err, and the failed fetch's siblings persisted and were
\* followed up
FailedWithSiblingsKept ==
    /\ fa[Direct].status = "err"
    /\ dlog.ok_writes # {}
    /\ \E d \in dlog.dispatched : d[3] >= 1

SameKey(p, q) ==
    /\ qin[p].platform = qin[q].platform
    /\ qin[p].identity = qin[q].identity

\* C9 as stated: a request that looks the key up while the task of an earlier
\* stale hit on that key is still running reads the record and answers
\* {Cached, Outdated}.
StaleUntilTaskEnds ==
    \A p, q \in Queries :
        (/\ p < q /\ qpath[p] = "stale" /\ SameKey(p, q)
         /\ Len(qlog[q]) >= 1
         /\ qlog[q][1].res.kind # "error"
         /\ p \in qlog[q][1].running) =>
            /\ qlog[q][1].res.kind = "some"
            /\ qpath[q] = "stale"
            /\ qpc[q] = "done" => qresp[q].status = {"Cached", "Outdated"}

\* C9: after a stale hit on a key, a request that looks the key up before any
\* background delete of that vertex has succeeded reads the record and does not
\* take the cold path; if no fetch rewrote the record meanwhile, it takes the
\* stale path and answers {Cached, Outdated}.
StaleUntilDeleted ==
    \A p, q \in Queries :
        (/\ p < q /\ qpath[p] = "stale" /\ SameKey(p, q)
         /\ Len(qlog[q]) >= 1
         /\ qlog[q][1].res.kind # "error"
         /\ jinfo[p].v_id \notin qlog[q][1].gone) =>
            /\ qlog[q][1].res.kind = "some"
            /\ qpath[q] \in {"stale", "fresh"}
            /\ qlog[q][1].res.updated_at = qlog[p][1].res.updated_at =>
                /\ qpath[q] = "stale"
                /\ qpc[q] = "done" => qresp[q].status = {"Cached", "Outdated"}

\* a second stale hit on the key while the first one's task is asleep
SecondStaleHit ==
    \E p, q \in Queries :
        /\ p < q /\ qpath[p] = "stale" /\ SameKey(p, q)
        /\ qpath[q] = "stale" /\ qpc[q] = "done"
        /\ qlog[q][1].running = {p}
        /\ qresp[q].status = {"Cached", "Outdated"}

BurstRefreshedOnce ==
    \A p, q \in Queries :
        (/\ p < q /\ SameKey(p, q)
         /\ qpath[p] = "stale" /\ qpath[q] = "stale"
         /\ qlog[q][1].at < jinfo[p].spawned_at + GraceSecs) =>
            ~(/\ jinfo[p].delete_result = "ok"
              /\ jinfo[q].delete_result = "ok"
              /\ jpc[p] \in {"fetch", "done", "failed", "panicked"}
              /\ jpc[q] \in {"fetch", "done", "failed", "panicked"})

TaskFailureLogged ==
    \A q \in Queries :
        jpc[q] = "failed" => jinfo[q].events \ {OutdatedEvent} # {}

\* C14 as stated: a cold ens() request whose awaited fetch_all returned an
\* error does not answer with that error: it performs the second lookup and
\* answers with its result.
ColdFetchErrorDowngraded ==
    (rq.path = "cold" /\ rq.fetch_result = "err" /\ rq.pc = "done") =>
        (rq.lookups = 2 /\ rq.resp \in FindByEnsName(edges, rq.name) \cup {ErrResolve})

\* C15: identity answers with an error only when the platform string does not
\* parse or a store lookup of its own fails; on the parse error and on the
\* failure of the first lookup no fetch_all was started, no task was spawned
\* and nothing was deleted on behalf of the request.
ErrorsAreOwnAndClean ==
    \A q \in Queries :
        /\ (qpc[q] = "done" /\ qresp[q].kind = "error") =>
                \/ qpath[q] \in {"param_error", "store_error"}
                \/ /\ qpath[q] = "cold"
                   /\ Len(qlog[q]) = 2
                   /\ qlog[q][2].res.kind = "error"
        /\ qpath[q] \in {"param_error", "store_error"} =>
                /\ qpc[q] = "done"
                /\ qresp[q].kind = "error"
                /\ fa[q] = IdleFetch
                /\ jpc[q] = "none"
                /\ jinfo[q] = NoJob

BothErrorsAnswered ==
    \E p, q \in Queries :
        /\ qpath[p] = "param_error" /\ qresp[p].kind = "error"
        /\ qpath[q] = "store_error" /\ qresp[q].kind = "error"
        /\ Len(qlog[p]) = 0
        /\ Len(qlog[q]) = 1

\* C16: a vertex leaves the store only in the delete step of a background
\* task, and it is the vertex whose record the spawning query found outdated;
\* no step of a cold fetch, a fresh hit or a fetch_all removes a vertex.
OnlyTaskDeletesOutdated ==
    [][\A k \in DOMAIN vertices :
            k \notin DOMAIN vertices' =>
                \E q \in Queries :
                    /\ jpc[q] = "delete"
                    /\ jinfo[q].v_id = k
                    /\ qpath[q] = "stale"
                    /\ qin[q].found.kind = "some"
                    /\ qin[q].found.v_id = k
                    /\ IsOutdated(qin[q].found.updated_at, jinfo[q].spawned_at)]_vars

TaskDeletedAfterColdFetch ==
    \E p, q \in Queries :
        /\ qpath[p] = "cold" /\ qpc[p] = "done" /\ fa[p].status \in {"ok", "err"}
        /\ qpath[q] = "stale" /\ jinfo[q].delete_result = "ok"
        /\ jinfo[q].v_id \notin DOMAIN vertices
        /\ DOMAIN vertices # {}

\* C36: a background task never deletes a record that is not outdated at the
\* time of the delete: a vertex refreshed during the task's wait, by another
\* task or by a cold fetch, stays in the store with its edges.
DeleteOnlyWhileOutdated ==
    [][\A k \in DOMAIN vertices :
            k \notin DOMAIN vertices' => IsOutdated(vertices[k].updated_at, now)]_vars

\* the Identities row a seed target is stored under
SeedKey(target) == IdentityKey(target.platform, ToLower(target.identity))

EdgeKeys(es) == {EdgeKeyOf(e) : e \in es}

UpsertTwiceIsUpsertOnce ==
    up.repeated => up.rows = up.before

RepeatedOverOlderRow ==
    /\ up.repeated
    /\ up.n = 3
    /\ up.rows[WalletKey].updated_at > up.last[1].updated_at
    /\ up.rows[WalletKey].uuid # up.last[1].uuid
    /\ up.last[1].uuid # <<>>
    /\ up.rows[WalletKey].display_name = up.last[1].display_name

\* C20: after any upserts of the row the stored updated_at is the greatest
\* updated_at upserted to it so far, and no upsert lowers it.
UpdatedAtIsMaxOfInputs ==
    WalletKey \in DOMAIN up.rows =>
        /\ up.rows[WalletKey].updated_at = up.max_in
        /\ WalletKey \in DOMAIN up.before =>
                up.rows[WalletKey].updated_at >= up.before[WalletKey].updated_at

OlderUpsertAfterNewer ==
    /\ up.n = 3
    /\ ~up.repeated
    /\ up.last[1].updated_at < up.before[WalletKey].updated_at
    /\ up.rows[WalletKey].updated_at = up.before[WalletKey].updated_at
    /\ up.rows[WalletKey].added_at = up.last[1].added_at

\* C21 as stated: an upsert of a row that exists leaves its uuid, created_at
\* and added_at as they were stored before (the key, platform and identity,
\* is the row's place in the store).
RefetchKeepsWriteOnce ==
    (up.n > 0 /\ WalletKey \in DOMAIN up.before) =>
        /\ WalletKey \in DOMAIN up.rows
        /\ up.rows[WalletKey].uuid = up.before[WalletKey].uuid
        /\ up.rows[WalletKey].created_at = up.before[WalletKey].created_at
        /\ up.rows[WalletKey].added_at = up.before[WalletKey].added_at

\* C22 as stated: of two upserts of the row with different updated_at, in
\* either order of arrival, the one with the greater updated_at is the one
\* stored: its updated_at and, where it names one, its display_name.
GreaterUpdatedAtWins ==
    (/\ up.n = 1
     /\ WalletKey \in DOMAIN up.before
     /\ up.last[1].updated_at # up.before[WalletKey].updated_at) =>
        LET first == up.before[WalletKey]
            second == up.last[1]
            winner == IF second.updated_at > first.updated_at THEN second ELSE first
            row == up.rows[WalletKey]
        IN /\ row.updated_at = winner.updated_at
           /\ winner.display_name # <<>> => row.display_name = winner.display_name

\* C23: status returns {Cached}, {Cached, Outdated} or {Fetching}: Fetching
\* exactly when the id is empty, Outdated only beside Cached, and Outdated
\* exactly when the id is not empty and is_outdated() holds.
StatusIsOneOfThree ==
    rec.call = "status" =>
        /\ rec.status \in {{"Cached"}, {"Cached", "Outdated"}, {"Fetching"}}
        /\ "Fetching" \in rec.status <=> rec.v_id = <<>>
        /\ "Outdated" \in rec.status => "Cached" \in rec.status
        /\ "Outdated" \in rec.status <=>
                (rec.v_id # <<>> /\ now - rec.updated_at > OutdatedInSecs)

FetchingThoughOld ==
    /\ rec.call = "status"
    /\ rec.v_id = <<>>
    /\ now - rec.updated_at > OutdatedInSecs
    /\ rec.status = {"Fetching"}

\* C24: Identity::is_outdated holds exactly when now - updated_at is above
\* one hour, Resolve::is_outdated exactly when it is above one day; at an age
\* equal to the TTL the record is not outdated.
OutdatedStrictlyAfterTtl ==
    /\ rec.call = "is_outdated" =>
            /\ rec.outdated <=> now - rec.updated_at > 3600
            /\ now - rec.updated_at = 3600 => ~rec.outdated
    /\ rec.call = "resolve_is_outdated" =>
            /\ rec.outdated <=> now - rec.updated_at > 24 * 3600
            /\ now - rec.updated_at = 24 * 3600 => ~rec.outdated

AgeEqualToTtl ==
    /\ rec.call = "is_outdated"
    /\ now - rec.updated_at = OutdatedInSecs
    /\ rec.updated_at > 0
    /\ ~rec.outdated

\* C25 as stated: the task an ens() request spawns on an outdated Resolve
\* starts its fetch_all no sooner than 10 seconds after the request, and by
\* then the Holds and Resolves the record was read from are deleted.
ResolveStaleWaitsAndDeletes ==
    (rq.path = "stale" /\ fa[Resolver].status # "idle") =>
        /\ now >= rq.at + GraceSecs
        /\ \A e \in edges :
                (e.disc = rq.name /\ e.kind \in {"Hold", "Resolve"}) =>
                    e.updated_at > rq.found.updated_at

\* C26 as stated: when identities() answers with a list, every requested
\* platform that had no record at the first lookup was cold-fetched before
\* the answer, also when other requested platforms had one.
EveryMissingPlatformFetched ==
    (iq.pc = "done" /\ iq.resp = "list") =>
        \A p \in Range(iq.platforms) : p \notin iq.record => p \in iq.fetched

====
